---- MODULE Spec2Model ----
(***************************************************************************)
(* Forecasting core of the prediction service: the orchestrator            *)
(* (PredictionEngine.generate_predictions), the feature engineer, the      *)
(* model layer, the confidence scorer and the insight generator with its   *)
(* optional external insight service (DGPT).                               *)
(*                                                                         *)
(* Numbers.  Money, quantities, utilisation rates, predicted values and    *)
(* confidences are fixed-point integers in hundredths (0.6 is 60, 100.0 is *)
(* 10000).  A value the code holds before round(x, 2) is a rational        *)
(* [n |-> numerator, d |-> denominator] of hundredths, d > 0.  Dates are   *)
(* whole day numbers; the time of day is not modelled.                     *)
(*                                                                         *)
(* The regression library (sklearn LinearRegression) is not code of this   *)
(* repository: what fit, score and predict return is an input of the       *)
(* model, drawn from TrainOutcomes.                                        *)
(***************************************************************************)
EXTENDS Integers, Sequences, FiniteSets, TLC

VARIABLES
    workload,       \* "sequential": one request at a time; "overlapped", "paired": two in flight
    dgpt_enabled,   \* config.DGPT_ENABLED, fixed for the life of the process
    ml_model,       \* prediction_engine.ml_model: the one UniversalMLModel of the process
    dgpt_token,     \* dgpt_client._token: the one cached authentication token
    pc,             \* pc[r]: where request r is suspended
    historical_data,\* historical_data[r]: what the fetch returned to request r
    request,        \* request[r]: prediction_type and time_horizon
    df,             \* df[r]: the feature frame of request r
    predictions,    \* predictions[r]: the PredictionPoint list of request r
    metadata,       \* metadata[r]: the metadata of request r
    response,       \* response[r]: what generate_predictions returned
    service_insights,    \* service_insights[r]: what _generate_service_insights returned to request r
    error_log,      \* error_log[r]: the stages of request r whose handler logged an error
    http_calls,     \* http_calls[r]: the external calls request r has issued
    u_model,        \* a UniversalMLModel instance driven directly, call by call
    u_call          \* the last direct call: its operation, arguments and result

\* the state of the service
serviceVars == <<workload, dgpt_enabled, ml_model, dgpt_token, pc, request,
                 historical_data, df, predictions, metadata, response,
                 service_insights, error_log, http_calls>>

\* the state of the directly driven components
unitVars == <<u_model, u_call>>

vars == <<workload, dgpt_enabled, ml_model, dgpt_token, pc, request,
          historical_data, df, predictions, metadata, response,
          service_insights, error_log, http_calls, u_model, u_call>>

-----------------------------------------------------------------------------
(* Bounds of the exploration *)

MaxHorizon == 3

Today == 1000

Day0 == 100

Reqs == {"r1", "r2"}

PredictionTypes == {"inventory", "budget", "resource", "sales"}

Horizons == 1..MaxHorizon

-----------------------------------------------------------------------------
(* Program constants *)

MIN_DATA_POINTS == 5

BASE_CONFIDENCE == 80

CONFIDENCE_DECAY == 1

MIN_CONFIDENCE == 50

MAX_CONFIDENCE == 95

ZERO_SCORE_FACTOR == 60

FALLBACK_CONFIDENCE == 60

PLACEHOLDER_CONFIDENCE == 50

PLACEHOLDER_VALUE == 10000

LAG_WINDOW == 7

MAX_INSIGHTS == 6

MAX_AI_INSIGHTS == 5

MIN_AI_LINE_LEN == 20

-----------------------------------------------------------------------------
(* Arithmetic helpers *)

Max(a, b) == IF a >= b THEN a ELSE b

Min(a, b) == IF a <= b THEN a ELSE b

Abs(a) == IF a >= 0 THEN a ELSE 0 - a

RECURSIVE SumSeq(_)
SumSeq(s) == IF s = <<>> THEN 0 ELSE Head(s) + SumSeq(Tail(s))

RECURSIVE MaxSeq(_)
MaxSeq(s) == IF Len(s) = 1 THEN s[1] ELSE Max(Head(s), MaxSeq(Tail(s)))

RECURSIVE MinSeq(_)
MinSeq(s) == IF Len(s) = 1 THEN s[1] ELSE Min(Head(s), MinSeq(Tail(s)))

Squares(s) == [i \in 1..Len(s) |-> s[i] * s[i]]

Repeat(v, n) == [i \in 1..n |-> v]

\* Faulty variant: the slice is forgotten
TakeAll(s, n) == s

\* s[:n]
Take(s, n) == SubSeq(s, 1, Min(n, Len(s)))

\* round(x, 2) of the double x that stands for n / d hundredths, d > 0.  Off a
\* tie the result is the nearest hundredth.  On a tie of the rational the double
\* is not the rational: it is stored beside it (0.545 above, 0.575 below), or it
\* is the result of arithmetic that ended beside it, and round returns the
\* neighbour on that side; `up` tells which side that is.
Round(n, d, up) ==
    LET q == n \div d
        r == n % d
    IN  IF 2 * r < d THEN q
        ELSE IF 2 * r > d THEN q + 1
        ELSE IF up THEN q + 1 ELSE q

\* round(float(x), 2) of a rational of hundredths
Round2(x, up) == Round(x.n, x.d, up)

Rat(n, d) == [n |-> n, d |-> d]

-----------------------------------------------------------------------------
(* Feature engineer (services/feature_engineer.py).                         *)
(* Raw data is [key, wellformed, records]: key is the name of the record    *)
(* list in the fetched map; wellformed is FALSE when the frame cannot be    *)
(* built, because a date cannot be parsed or because no record carries the  *)
(* numeric field, so that its column does not exist and reading it raises   *)
(* (the values of the records are then not read).  A record is [date,       *)
(* value, avail] with value the quantity, amount, total_amount or           *)
(* utilized_hours and avail the available_hours; every record of a          *)
(* well-formed list carries its fields (no missing values).  A frame is the *)
(* sequence of its rows [date, target]: the engineered columns feed the     *)
(* regression library only.                                                 *)

ListKey(ptype) ==
    CASE ptype = "inventory" -> "history"
      [] ptype = "budget"    -> "expenses"
      [] ptype = "resource"  -> "utilization_data"
      [] OTHER               -> "orders"

\* data.get(key, [])
RecordList(data, key) == IF data.key = key THEN data.records ELSE <<>>

RECURSIVE InsertByDate(_, _)
InsertByDate(row, sorted) ==
    IF sorted = <<>> THEN <<row>>
    ELSE IF row.date < Head(sorted).date THEN <<row>> \o sorted
    ELSE <<Head(sorted)>> \o InsertByDate(row, Tail(sorted))

\* df.sort_values('date')
RECURSIVE SortByDate(_)
SortByDate(rows) ==
    IF rows = <<>> THEN <<>>
    ELSE InsertByDate(rows[Len(rows)], SortByDate(SubSeq(rows, 1, Len(rows) - 1)))

RECURSIVE AddToDay(_, _)
AddToDay(row, grouped) ==
    IF grouped = <<>> THEN <<row>>
    ELSE IF Head(grouped).date = row.date
         THEN <<[date |-> row.date, target |-> Head(grouped).target + row.target]>>
              \o Tail(grouped)
    ELSE IF row.date < Head(grouped).date THEN <<row>> \o grouped
    ELSE <<Head(grouped)>> \o AddToDay(row, Tail(grouped))

\* df.groupby('date')[col].sum().reset_index().sort_values('date')
RECURSIVE GroupByDate(_)
GroupByDate(rows) ==
    IF rows = <<>> THEN <<>>
    ELSE AddToDay(rows[Len(rows)], GroupByDate(SubSeq(rows, 1, Len(rows) - 1)))

ValueRows(records) ==
    [i \in 1..Len(records) |-> [date |-> records[i].date, target |-> records[i].value]]

\* utilized_hours / available_hours.replace(0, 1), clipped to [0, 1], in hundredths
\* (one hour is 100).  Defined for the hours whose quotient is a whole number of
\* hundredths, as are all those of History, UtilizedHours and AvailableHours.
UtilizationRate(utilized, avail) ==
    LET a == IF avail = 0 THEN 100 ELSE avail
        num == IF a < 0 THEN 0 - 100 * utilized ELSE 100 * utilized
        den == Abs(a)
    IN  Max(0, Min(100, num \div den))

\* Faulty variant: the rows without a seven-day lag are kept
PrepareInventoryFeaturesKeepAll(data) ==
    LET history == RecordList(data, "history")
        sorted  == SortByDate(ValueRows(history))
    IN  IF history = <<>> \/ ~data.wellformed THEN <<>>
        ELSE sorted

PrepareInventoryFeatures(data) ==
    LET history == RecordList(data, "history")
        sorted  == SortByDate(ValueRows(history))
    IN  IF history = <<>> \/ ~data.wellformed THEN <<>>
        \* dropna(): quantity_lag_7 is undefined on the first LAG_WINDOW rows
        ELSE SubSeq(sorted, LAG_WINDOW + 1, Len(sorted))

PrepareBudgetFeatures(data) ==
    LET expenses == RecordList(data, "expenses")
    IN  IF expenses = <<>> \/ ~data.wellformed THEN <<>>
        ELSE GroupByDate(ValueRows(expenses))

PrepareResourceFeatures(data) ==
    LET utilization_data == RecordList(data, "utilization_data")
        rows == [i \in 1..Len(utilization_data) |->
                    [date   |-> utilization_data[i].date,
                     target |-> UtilizationRate(utilization_data[i].value,
                                                utilization_data[i].avail)]]
    IN  IF utilization_data = <<>> \/ ~data.wellformed THEN <<>>
        ELSE SortByDate(rows)

PrepareSalesFeatures(data) ==
    LET orders == RecordList(data, "orders")
    IN  IF orders = <<>> \/ ~data.wellformed THEN <<>>
        ELSE GroupByDate(ValueRows(orders))

PrepareFeatures(data, ptype) ==
    CASE ptype = "inventory" -> PrepareInventoryFeatures(data)
      [] ptype = "budget"    -> PrepareBudgetFeatures(data)
      [] ptype = "resource"  -> PrepareResourceFeatures(data)
      [] ptype = "sales"     -> PrepareSalesFeatures(data)
      [] OTHER               -> <<>>

Targets(frame) == [i \in 1..Len(frame) |-> frame[i].target]

\* The columns of the frame prepare_features builds, in the order in which the
\* code creates them.  `extra` are the fields a record carries besides its date
\* and numeric fields; the grouped frames (budget, sales) drop them.
FrameColumns(ptype, extra) ==
    CASE ptype = "inventory" ->
            <<"date", "quantity">> \o extra \o
            <<"day_of_year", "month", "week_of_year", "day_of_week",
              "quantity_lag_1", "quantity_lag_7", "quantity_ma_7", "quantity_ma_30",
              "quantity_std_7", "quantity_trend">>
      [] ptype = "budget" ->
            <<"date", "amount", "day_of_month", "month", "quarter", "day_of_week",
              "amount_ma_7", "amount_ma_30", "amount_lag_1", "amount_lag_7">>
      [] ptype = "resource" ->
            <<"date", "utilized_hours", "available_hours">> \o extra \o
            <<"utilization_rate", "day_of_week", "month", "quarter",
              "util_ma_7", "util_ma_30">>
      [] ptype = "sales" ->
            <<"date", "total_amount", "day_of_week", "month", "quarter",
              "day_of_month", "sales_ma_7", "sales_ma_30", "sales_lag_1",
              "sales_lag_7">>
      [] OTHER -> <<>>

\* exclude_cols of _get_feature_columns
ExcludeColumns(ptype) ==
    {"date"} \cup
    (CASE ptype = "inventory" -> {"quantity"}
       [] ptype = "budget"    -> {"amount"}
       [] ptype = "resource"  -> {"utilization_rate", "available_hours",
                                  "utilized_hours"}
       [] ptype = "sales"     -> {"total_amount"}
       [] OTHER               -> {})

\* _get_feature_columns: the columns of X = df[feature_cols], in frame order
GetFeatureColumns(columns, ptype) ==
    LET Kept(col) == col \notin ExcludeColumns(ptype)
    IN  SelectSeq(columns, Kept)

\* the time features create_future_features appends first, in its order
TIME_FEATURES ==
    <<"day_of_year", "month", "week_of_year", "day_of_week", "day_of_month",
      "quarter">>

\* create_future_features: the column whose value each position of a future row
\* holds: the time features present in feature_cols, then the other columns
FutureColumns(feature_cols) ==
    LET Present(col) == \E i \in 1..Len(feature_cols) : feature_cols[i] = col
        Other(col)   == \A i \in 1..Len(TIME_FEATURES) : TIME_FEATURES[i] # col
    IN  SelectSeq(TIME_FEATURES, Present) \o SelectSeq(feature_cols, Other)

\* pd.to_datetime(df['date'].max())
LastDate(frame) == MaxSeq([i \in 1..Len(frame) |-> frame[i].date])

\* create_future_features: one row per future date, or nothing when the frame
\* is empty, there is no future date, or a column statistic raises (ok = FALSE)
FutureFeatureRows(frame, horizon, ok) ==
    IF frame = <<>> \/ horizon = 0 \/ ~ok THEN 0 ELSE horizon

-----------------------------------------------------------------------------
(* Model layer (models/ml_models.py).                                       *)
(* The state of the shared UniversalMLModel is [is_trained, fit]: fit names *)
(* the coefficients LinearRegression holds.  A fit [a, b] predicts, for the *)
(* i-th future row, (a + b * i) / 100 hundredths.  An outcome is what the   *)
(* libraries do during one call of _create_predictions: [train, score, fit, *)
(* future_ok, predict_ok, trend_model_ok, trend_ok, ties].  predict_ok:     *)
(* LinearRegression.predict returns; trend_model_ok: the arithmetic of      *)
(* TrendModel.predict returns; trend_ok: the try block of                   *)
(* _fallback_predictions completes; ties: the roundings of this call whose  *)
(* double lies above a tie, as slots <<"value", i>>, <<"confidence", i>>    *)
(* and <<"average", 0>>.                                                    *)

MODEL_TYPE == "linear_regression"

Unfitted == [a |-> 0, b |-> 0, fitted |-> FALSE]

Fit(a, b) == [a |-> a, b |-> b, fitted |-> TRUE]

NewModel == [is_trained |-> FALSE, fit |-> Unfitted]

\* UniversalMLModel.train: the model afterwards and the score returned
Train(model, rows, outcome) ==
    IF rows < 2 THEN [model |-> model, score |-> 0]
    ELSE IF outcome.train = "ok"
         THEN [model |-> [is_trained |-> TRUE, fit |-> outcome.fit],
               score |-> Max(0, Min(100, outcome.score))]
    ELSE [model |-> [is_trained |-> FALSE, fit |-> model.fit], score |-> 0]

\* UniversalMLModel.predict on `rows` feature rows; ok = FALSE: the library's
\* predict raises, and the except clause returns zeros
Predict(model, rows, ok) ==
    IF ~model.is_trained THEN Repeat(Rat(0, 1), rows)
    ELSE IF ~ok THEN Repeat(Rat(0, 1), rows)
    ELSE [i \in 1..rows |-> Rat(Max(model.fit.a + model.fit.b * i, 0), 100)]

\* Faulty variant: a short history yields one value instead of `steps` values
TrendPredictOnce(data, steps, ok) ==
    LET n   == Len(data)
        Sy  == SumSeq(data)
        Sxy == SumSeq([i \in 1..n |-> (i - 1) * data[i]])
        A   == 12 * Sxy - 6 * (n - 1) * Sy
        D   == 2 * n * (n * n - 1)
        at(x) == A * (2 * x - n + 1) + 2 * (n * n - 1) * Sy
    IN  IF n < 2 THEN <<Rat(IF n = 0 THEN 0 ELSE data[1], 1)>>
        ELSE IF ~ok THEN Repeat(Rat(data[n], 1), steps)
        ELSE [k \in 1..steps |-> Rat(Max(at(n + k - 1), 0), D)]

\* TrendModel.predict: least squares over x = 0..n-1, projected `steps` ahead.
\* With A = 12 * Sxy - 6 * (n - 1) * Sy the slope is A / (n * (n^2 - 1)) and the
\* value at x is (A * (2 * x - n + 1) + 2 * (n^2 - 1) * Sy) / (2 * n * (n^2 - 1)).
\* ok = FALSE: the arithmetic raises, and the except clause returns the last
\* value, `steps` times, without the floor at 0.
TrendPredict(data, steps, ok) ==
    LET n   == Len(data)
        Sy  == SumSeq(data)
        Sxy == SumSeq([i \in 1..n |-> (i - 1) * data[i]])
        A   == 12 * Sxy - 6 * (n - 1) * Sy
        D   == 2 * n * (n * n - 1)
        at(x) == A * (2 * x - n + 1) + 2 * (n * n - 1) * Sy
    IN  IF n < 2 THEN Repeat(Rat(IF n = 0 THEN 0 ELSE data[1], 1), steps)
        ELSE IF ~ok THEN Repeat(Rat(data[n], 1), steps)
        ELSE [k \in 1..steps |-> Rat(Max(at(n + k - 1), 0), D)]

-----------------------------------------------------------------------------
(* Prediction engine (services/prediction_engine.py) *)

\* Faulty variant: the lower clamp is missing
CalculateConfidenceNoFloor(step, time_horizon, model_score) ==
    LET score_factor == IF model_score > 0 THEN Max(50, model_score)
                        ELSE ZERO_SCORE_FACTOR
        time_factor  == Max(50, BASE_CONFIDENCE - step * CONFIDENCE_DECAY)
        confidence   == score_factor * time_factor
    IN  Min(MAX_CONFIDENCE * 100, confidence)

\* Faulty variant: the decay is added instead of subtracted
CalculateConfidenceGrowing(step, time_horizon, model_score) ==
    LET score_factor == IF model_score > 0 THEN Max(50, model_score)
                        ELSE ZERO_SCORE_FACTOR
        time_factor  == Max(50, BASE_CONFIDENCE + step * CONFIDENCE_DECAY)
        confidence   == score_factor * time_factor
    IN  Max(MIN_CONFIDENCE * 100, Min(MAX_CONFIDENCE * 100, confidence))

\* Faulty variant: the lower clamp is 0.4
CalculateConfidenceLowFloor(step, time_horizon, model_score) ==
    LET score_factor == IF model_score > 0 THEN Max(50, model_score)
                        ELSE ZERO_SCORE_FACTOR
        time_factor  == Max(50, BASE_CONFIDENCE - step * CONFIDENCE_DECAY)
        confidence   == score_factor * time_factor
    IN  Max(4000, Min(MAX_CONFIDENCE * 100, confidence))

\* Faulty variant: the time factor is left out of the product
CalculateConfidenceUndamped(step, time_horizon, model_score) ==
    LET score_factor == IF model_score > 0 THEN Max(50, model_score)
                        ELSE ZERO_SCORE_FACTOR
        confidence   == score_factor * 100
    IN  Max(MIN_CONFIDENCE * 100, Min(MAX_CONFIDENCE * 100, confidence))

\* _calculate_confidence, in ten-thousandths: score and the factors are hundredths
CalculateConfidence(step, time_horizon, model_score) ==
    LET score_factor == IF model_score > 0 THEN Max(50, model_score)
                        ELSE ZERO_SCORE_FACTOR
        time_factor  == Max(50, BASE_CONFIDENCE - step * CONFIDENCE_DECAY)
        confidence   == score_factor * time_factor
    IN  Max(MIN_CONFIDENCE * 100, Min(MAX_CONFIDENCE * 100, confidence))

PredictionPoint(date, value, confidence) ==
    [date |-> date, predicted_value |-> value, confidence |-> confidence]

\* Faulty variant: every fallback point is dated the day after now
FallbackPredictionsSameDay(frame, ptype, time_horizon, outcome) ==
    LET trend_predictions ==
            IF ptype \in PredictionTypes /\ Len(frame) > 0
            THEN TrendPredict(Targets(frame), time_horizon, outcome.trend_model_ok)
            ELSE Repeat(Rat(PLACEHOLDER_VALUE, 1), time_horizon)
    IN  [i \in 1..Len(trend_predictions) |->
            PredictionPoint(Today + 1,
                            Round2(trend_predictions[i], <<"value", i>> \in outcome.ties),
                            FALLBACK_CONFIDENCE)]

\* _fallback_predictions: the trend model on the target column, or the constant
\* series when the frame is empty or the type has no target column; dated from
\* now, confidence 0.6
FallbackPredictions(frame, ptype, time_horizon, outcome) ==
    LET trend_predictions ==
            IF ptype \in PredictionTypes /\ Len(frame) > 0
            THEN TrendPredict(Targets(frame), time_horizon, outcome.trend_model_ok)
            ELSE Repeat(Rat(PLACEHOLDER_VALUE, 1), time_horizon)
    IN  [i \in 1..Len(trend_predictions) |->
            PredictionPoint(Today + i,
                            Round2(trend_predictions[i], <<"value", i>> \in outcome.ties),
                            FALLBACK_CONFIDENCE)]

\* the except clause of _fallback_predictions: the constant series, confidence 0.5
PlaceholderPredictions(time_horizon) ==
    [i \in 1..time_horizon |->
        PredictionPoint(Today + i, PLACEHOLDER_VALUE, PLACEHOLDER_CONFIDENCE)]

\* _fallback_predictions with its except clause: outcome.trend_ok says whether
\* the try block, entered with a non-empty frame, completes
FallbackTier(frame, ptype, time_horizon, outcome) ==
    IF Len(frame) > 0 /\ ~outcome.trend_ok
    THEN PlaceholderPredictions(time_horizon)
    ELSE FallbackPredictions(frame, ptype, time_horizon, outcome)

\* the primary path of _create_predictions, after train returned `trained`
PrimaryPredictions(frame, time_horizon, trained, outcome) ==
    LET last_date == LastDate(frame)
        future_predictions == Predict(trained.model, time_horizon, outcome.predict_ok)
    IN  [i \in 1..time_horizon |->
            PredictionPoint(last_date + i,
                Round2(future_predictions[i], <<"value", i>> \in outcome.ties),
                Round(CalculateConfidence(i - 1, time_horizon, trained.score), 100,
                      <<"confidence", i>> \in outcome.ties))]

\* Faulty variant: predict runs on the shared model as it was found, before this
\* call's train wrote to it
CreatePredictionsStale(frame, ptype, time_horizon, model, outcome) ==
    IF Len(frame) < MIN_DATA_POINTS
    THEN [predictions |-> FallbackTier(frame, ptype, time_horizon, outcome),
          model |-> model]
    ELSE LET trained == Train(model, Len(frame), outcome)
         IN  IF FutureFeatureRows(frame, time_horizon, outcome.future_ok) = 0
             THEN [predictions |-> FallbackTier(frame, ptype, time_horizon, outcome),
                   model |-> trained.model]
             ELSE [predictions |-> PrimaryPredictions(frame, time_horizon,
                                       [model |-> model, score |-> trained.score],
                                       outcome),
                   model |-> trained.model]

\* _create_predictions: the predictions and the shared model afterwards
CreatePredictions(frame, ptype, time_horizon, model, outcome) ==
    IF Len(frame) < MIN_DATA_POINTS
    THEN [predictions |-> FallbackTier(frame, ptype, time_horizon, outcome),
          model |-> model]
    ELSE LET trained == Train(model, Len(frame), outcome)
         IN  IF FutureFeatureRows(frame, time_horizon, outcome.future_ok) = 0
             THEN [predictions |-> FallbackTier(frame, ptype, time_horizon, outcome),
                   model |-> trained.model]
             ELSE [predictions |-> PrimaryPredictions(frame, time_horizon, trained,
                                                      outcome),
                   model |-> trained.model]

Confidences(preds) == [i \in 1..Len(preds) |-> preds[i].confidence]

Values(preds) == [i \in 1..Len(preds) |-> preds[i].predicted_value]

\* _create_metadata
CreateMetadata(frame, preds, model, outcome) ==
    [model_used     |-> MODEL_TYPE,
     data_points    |-> Len(frame),
     last_updated   |-> Today,
     confidence_avg |-> IF preds = <<>> THEN 0
                        ELSE Round(SumSeq(Confidences(preds)), Len(preds),
                                   <<"average", 0>> \in outcome.ties)]

\* Faulty variant: the pipeline fallback carries the local fallback's confidence
GenerateFallbackPredictionsLocal(ptype, time_horizon) ==
    [prediction_type |-> ptype,
     time_horizon    |-> time_horizon,
     predictions     |-> [i \in 1..time_horizon |->
                             PredictionPoint(Today + i, PLACEHOLDER_VALUE,
                                             FALLBACK_CONFIDENCE)],
     insights        |-> <<"Unable to generate detailed insights: {error_msg}",
                           "Using basic trend analysis">>,
     metadata        |-> [model_used     |-> "fallback",
                          data_points    |-> 0,
                          last_updated   |-> Today,
                          confidence_avg |-> FALLBACK_CONFIDENCE]]

\* _generate_fallback_predictions: the response when the pipeline raised
GenerateFallbackPredictions(ptype, time_horizon) ==
    [prediction_type |-> ptype,
     time_horizon    |-> time_horizon,
     predictions     |-> [i \in 1..time_horizon |->
                             PredictionPoint(Today + i, PLACEHOLDER_VALUE,
                                             PLACEHOLDER_CONFIDENCE)],
     insights        |-> <<"Unable to generate detailed insights: {error_msg}",
                           "Using basic trend analysis">>,
     metadata        |-> [model_used     |-> "fallback",
                          data_points    |-> 0,
                          last_updated   |-> Today,
                          confidence_avg |-> PLACEHOLDER_CONFIDENCE]]

-----------------------------------------------------------------------------
(* Insight generator (utils/insights.py).  An insight is its text with the *)
(* formatted number left as a placeholder.                                 *)
(*                                                                         *)
(* The generator compares doubles: a percentage, a mean or a standard      *)
(* deviation it has computed against a threshold.  The numbers of this     *)
(* module are exact, and the double differs from the exact quantity by a   *)
(* rounding residue, so a comparison whose two sides are equal in exact    *)
(* arithmetic comes out either way in the code ((1.10 - 1.00) / 1.00 * 100 *)
(* is above 10, (110.0 - 100.0) / 100.0 * 100 is not).  `sides` is the set *)
(* of the comparisons of one call that come out true on such an equality.  *)
(* Where the code's arithmetic is exact (the mean of one value, of two     *)
(* equal values or of zeros, the deviation of such a column) there is no   *)
(* residue, and the comparison is the exact one.                           *)

\* the comparisons of doubles in the generator, by the insight they guard
COMPARISONS ==
    {"trend_above", "trend_below", "confidence_high", "confidence_moderate",
     "average_higher", "average_lower", "volatility_higher", "volatility_lower",
     "weekly"}

\* the sides handed to the direct calls of the stages: every equality false,
\* every equality true, and a mixture
SideChoices ==
    {{}, COMPARISONS,
     {"trend_above", "confidence_moderate", "average_lower", "volatility_lower"}}

\* np.mean(s) can differ from the exact mean: the sum of one value, of two equal
\* values and of zeros is exact, and so is its division by their number
MeanMayRound(s) ==
    /\ \E i \in 1..Len(s) : s[i] # 0
    /\ Len(s) > 2 \/ (Len(s) = 2 /\ s[1] # s[2])

\* trend_pct = (last - first) / first * 100 compared with a threshold, first /= 0
TrendAbove(first, last, t, sides) ==
    \/ IF first > 0 THEN 100 * (last - first) > t * first
       ELSE 100 * (last - first) < t * first
    \/ 100 * (last - first) = t * first /\ "trend_above" \in sides

TrendBelow(first, last, t, sides) ==
    \/ IF first > 0 THEN 100 * (last - first) < (0 - t) * first
       ELSE 100 * (last - first) > (0 - t) * first
    \/ 100 * (last - first) = (0 - t) * first /\ "trend_below" \in sides

\* the branches of _analyze_trend on trend_pct, for first_value /= 0
TrendInsights(first_value, last_value, ptype, sides) ==
    LET up(t)   == TrendAbove(first_value, last_value, t, sides)
        down(t) == TrendBelow(first_value, last_value, t, sides)
    IN       CASE ptype = "inventory" ->
                    IF up(10)
                    THEN <<"Expected {pct}% increase in demand over forecast period",
                           "Consider increasing inventory levels to meet growing demand">>
                    ELSE IF down(10)
                    THEN <<"Expected {pct}% decrease in demand",
                           "Consider reducing inventory to avoid overstocking">>
                    ELSE <<"Demand expected to remain stable",
                           "Current inventory levels appear adequate">>
               [] ptype = "budget" ->
                    IF up(15)
                    THEN <<"Budget spending trending {pct}% higher",
                           "Review spending controls and budget allocation">>
                    ELSE IF down(15)
                    THEN <<"Budget spending trending {pct}% lower",
                           "Potential opportunity for budget reallocation">>
                    ELSE <<"Budget spending on track with historical patterns">>
               [] ptype = "resource" ->
                    IF up(10)
                    THEN <<"Resource utilization expected to increase by {pct}%",
                           "Consider capacity planning and resource allocation">>
                    ELSE IF down(10)
                    THEN <<"Resource utilization expected to decrease by {pct}%",
                           "Potential opportunity for resource optimization">>
                    ELSE <<"Resource utilization expected to remain stable">>
               [] ptype = "sales" ->
                    IF up(10)
                    THEN <<"Sales revenue expected to grow by {pct}%",
                           "Positive growth trend - consider scaling operations">>
                    ELSE IF down(10)
                    THEN <<"Sales revenue expected to decline by {pct}%",
                           "Review sales strategy and market conditions">>
                    ELSE <<"Sales revenue expected to remain steady">>
               [] OTHER -> <<>>

\* Faulty variant: the zero test looks at the last value, so a first value of 0
\* reaches the division
AnalyzeTrendGuardLast(preds, ptype, sides) ==
    LET first_value == preds[1].predicted_value
        last_value  == preds[Len(preds)].predicted_value
    IN  IF Len(preds) < 2 THEN <<>>
        ELSE IF last_value = 0 THEN <<>>
        ELSE IF first_value = 0 THEN <<"ZeroDivisionError: float division by zero">>
        ELSE TrendInsights(first_value, last_value, ptype, sides)

\* _analyze_trend
AnalyzeTrend(preds, ptype, sides) ==
    LET first_value == preds[1].predicted_value
        last_value  == preds[Len(preds)].predicted_value
    IN  IF Len(preds) < 2 THEN <<>>
        ELSE IF first_value = 0 THEN <<>>
        ELSE TrendInsights(first_value, last_value, ptype, sides)

\* _analyze_confidence: np.mean of the confidences against 0.85 and 0.7, and
\* their minimum, which is one of them as it is, against 0.6
AnalyzeConfidence(preds, sides) ==
    LET total == SumSeq(Confidences(preds))
        n     == Len(preds)
        min_confidence == MinSeq(Confidences(preds))
        residue == MeanMayRound(Confidences(preds))
    IN  (IF \/ total > 85 * n
            \/ total = 85 * n /\ residue /\ "confidence_high" \in sides
         THEN <<"High confidence predictions based on strong historical patterns">>
         ELSE IF \/ total < 70 * n
                 \/ total = 70 * n /\ residue /\ "confidence_moderate" \in sides
         THEN <<"Prediction confidence is moderate - consider additional data collection">>
         ELSE <<>>)
        \o
        (IF min_confidence < 60
         THEN <<"Long-term predictions have lower confidence - monitor closely">>
         ELSE <<>>)

\* n^2 times the population variance of s, exactly; np.std is the double next to
\* its square root, which for a constant column may be a residue above 0
VarTimesN2(s) == Len(s) * SumSeq(Squares(s)) - SumSeq(s) * SumSeq(s)

\* _analyze_historical_context: the means, the products hist_avg * 1.2 and
\* hist_std * 1.5 and the standard deviations are doubles, so each test comes
\* out either way where the exact quantities are equal.  Two constant columns
\* are such a case: each deviation is 0, or a residue above 0 when the mean of
\* the column is rounded
AnalyzeHistoricalContext(preds, frame, ptype, sides) ==
    LET hist == Targets(frame)
        pred == Values(preds)
        m  == Len(hist)
        h  == Len(pred)
        Sh == SumSeq(hist)
        Sp == SumSeq(pred)
        hv == VarTimesN2(hist) * h * h
        pv == VarTimesN2(pred) * m * m
        avg_residue  == Sh # 0 \/ MeanMayRound(hist) \/ MeanMayRound(pred)
        pred_residue == pv # 0 \/ MeanMayRound(pred)
        hist_residue == hv # 0 \/ MeanMayRound(hist)
    IN  (IF \/ 5 * Sp * m > 6 * Sh * h
            \/ 5 * Sp * m = 6 * Sh * h /\ avg_residue /\ "average_higher" \in sides
         THEN <<"Predicted values significantly higher than historical average">>
         ELSE IF \/ 5 * Sp * m < 4 * Sh * h
                 \/ 5 * Sp * m = 4 * Sh * h /\ avg_residue /\ "average_lower" \in sides
         THEN <<"Predicted values significantly lower than historical average">>
         ELSE <<>>)
        \o
        (IF \/ 4 * pv > 9 * hv
            \/ 4 * pv = 9 * hv /\ pred_residue /\ "volatility_higher" \in sides
         THEN <<"Increased volatility expected compared to historical patterns">>
         ELSE IF \/ 4 * pv < hv
                 \/ 4 * pv = hv /\ hist_residue /\ "volatility_lower" \in sides
         THEN <<"Lower volatility expected - more stable period ahead">>
         ELSE <<>>)

\* _get_type_specific_insights
TypeSpecificInsights(preds, ptype, sides) ==
    LET values == Values(preds)
        n  == Len(values)
        S1 == SumSeq(SubSeq(values, 1, 7))
        S2 == SumSeq(SubSeq(values, 8, 14))
        \* abs(second_week_avg - weekly_avg) / weekly_avg > 0.2, a float division
        weekly == IF S1 > 0
                  THEN \/ 5 * Abs(S2 - S1) > S1
                       \/ 5 * Abs(S2 - S1) = S1 /\ "weekly" \in sides
                  ELSE S1 = 0 /\ S2 # 0
    IN  CASE ptype = "inventory" ->
              (IF MaxSeq(values) > MinSeq(values) * 2
               THEN <<"High demand variability - consider flexible inventory strategy">>
               ELSE <<>>)
              \o
              (IF n >= 14 /\ weekly
               THEN <<"Weekly demand patterns detected - optimize replenishment timing">>
               ELSE <<>>)
          [] ptype = "budget" ->
              IF n >= 30 THEN <<"Total predicted spending for period: ${total}">>
              ELSE <<>>
          [] ptype = "sales" ->
              IF n >= 30 THEN <<"Projected revenue for period: ${total}">>
              ELSE <<>>
          [] OTHER -> <<>>

\* Faulty variant: the cap keeps the latest six insights, not the first six
GenerateStaticInsightsLatest(preds, ptype, frame, sides) ==
    LET all == AnalyzeTrend(preds, ptype, sides)
               \o AnalyzeConfidence(preds, sides)
               \o (IF frame # <<>>
                   THEN AnalyzeHistoricalContext(preds, frame, ptype, sides)
                   ELSE <<>>)
               \o TypeSpecificInsights(preds, ptype, sides)
    IN  IF preds = <<>> THEN <<"Insufficient data for insights">>
        ELSE SubSeq(all, Max(1, Len(all) - MAX_INSIGHTS + 1), Len(all))

\* _generate_static_insights
GenerateStaticInsights(preds, ptype, frame, sides) ==
    IF preds = <<>> THEN <<"Insufficient data for insights">>
    ELSE Take(AnalyzeTrend(preds, ptype, sides)
              \o AnalyzeConfidence(preds, sides)
              \o (IF frame # <<>>
                  THEN AnalyzeHistoricalContext(preds, frame, ptype, sides)
                  ELSE <<>>)
              \o TypeSpecificInsights(preds, ptype, sides),
              MAX_INSIGHTS)

\* the comparisons that stand on an exact equality in one run of the rule-based
\* stages on these arguments: those whose side changes what a stage appends.
\* The side of every other comparison is fixed by the arguments.
Undecided(preds, ptype, frame) ==
    LET Stages(sides) ==
            <<AnalyzeTrend(preds, ptype, sides),
              AnalyzeConfidence(preds, sides),
              IF frame # <<>>
              THEN AnalyzeHistoricalContext(preds, frame, ptype, sides)
              ELSE <<>>,
              TypeSpecificInsights(preds, ptype, sides)>>
        none == Stages({})
    IN  IF preds = <<>> \/ Stages(COMPARISONS) = none THEN {}
        ELSE {c \in COMPARISONS : Stages({c}) # none}

-----------------------------------------------------------------------------
(* Insight service client (services/dgpt_client.py).  A line of the        *)
(* service's text is [text, marker, rest, len, mlen, colon]: the stripped  *)
(* line, its leading marker candidate ("" if none) of mlen characters, the *)
(* stripped text after it of len characters, and whether it ends in ':'.   *)

\* the bullet dot (U+2022) followed by a space, two characters, written in the
\* characters a string of this module can hold
BULLET == "(U+2022) "

\* the prefixes _parse_ai_insights strips
MARKERS == {"1. ", "2. ", "3. ", "4. ", "5. ", "- ", BULLET, "* "}

CleanedLine(line) ==
    IF line.marker \in MARKERS THEN [text |-> line.rest, len |-> line.len]
    ELSE [text |-> line.text, len |-> line.len + line.mlen]

RECURSIVE KeptLines(_)
KeptLines(lines) ==
    IF lines = <<>> THEN <<>>
    ELSE LET c == CleanedLine(Head(lines))
         IN  (IF c.len > MIN_AI_LINE_LEN /\ ~Head(lines).colon THEN <<c.text>> ELSE <<>>)
             \o KeptLines(Tail(lines))

\* _parse_ai_insights
ParseAiInsights(lines) == Take(KeptLines(lines), MAX_AI_INSIGHTS)

\* DGPTClient.generate_insights once the completion call has returned `reply`
CompletionInsights(reply) ==
    IF reply.status = 200 /\ reply.content # <<>> THEN ParseAiInsights(reply.content)
    ELSE <<>>

\* Faulty variant: the rule-based insights are appended to the service's
GenerateInsightsMixed(preds, ptype, frame, ai_insights, sides) ==
    IF preds = <<>> THEN <<"Insufficient data for insights">>
    ELSE Take(ai_insights \o GenerateStaticInsights(preds, ptype, frame, sides),
              MAX_INSIGHTS)

\* generate_insights_async once _generate_ai_insights has returned ai_insights
GenerateInsights(preds, ptype, frame, ai_insights, sides) ==
    IF preds = <<>> THEN <<"Insufficient data for insights">>
    ELSE IF ai_insights # <<>> THEN Take(ai_insights, MAX_INSIGHTS)
    ELSE Take(GenerateStaticInsights(preds, ptype, frame, sides), MAX_INSIGHTS)

-----------------------------------------------------------------------------
(* Inputs: what the ERP service, the regression library and the insight    *)
(* service hand to the pipeline.                                           *)

\* numbers of records of the histories: of an inventory history the first
\* seven records are spent on the lag window
HistLens(ptype) ==
    IF ptype = "inventory" THEN {0, 1, 2, 5, 7, 8, 11, 12} ELSE {0, 1, 2, 5}

HistShapes == {[base |-> 0 - 100, slope |-> 0], [base |-> 0, slope |-> 0],
               [base |-> 100, slope |-> 0], [base |-> 100, slope |-> 10]}

\* n records, perDay of them on each day from Day0 on, ten available hours each
History(n, shape, perDay) ==
    [i \in 1..n |-> [date  |-> Day0 + ((i - 1) \div perDay),
                     value |-> shape.base + shape.slope * (i - 1),
                     avail |-> 1000]]

RawData(key, wellformed, records) ==
    [key |-> key, wellformed |-> wellformed, records |-> records]

Rising == [base |-> 100, slope |-> 10]

\* what fetch_historical_data can return for a request of type ptype
FetchedData(ptype) ==
    {RawData(ListKey(ptype), TRUE, History(n, s, 1)) :
        n \in HistLens(ptype), s \in HistShapes}
    \cup {RawData(ListKey(ptype), TRUE, History(6, Rising, 2)),
          RawData(ListKey(ptype), FALSE, History(5, Rising, 1)),
          RawData("error", TRUE, <<>>)}

FetchedDataOverlapped(ptype) ==
    {RawData(ListKey(ptype), TRUE, History(n, Rising, 1)) : n \in {0, 5}}

\* the fits of the regression: a score with the coefficients found.  Of the
\* first the second prediction stands on a rounding tie (250.50)
ScoredFits == {<<0, Fit(5000, 10025)>>, <<70, Fit(0, 0)>>,
               <<100, Fit(0 - 15000, 10000)>>}

TrainOk(score, fit) ==
    [train |-> "ok", score |-> score, fit |-> fit, future_ok |-> TRUE,
     predict_ok |-> TRUE, trend_model_ok |-> TRUE, trend_ok |-> TRUE, ties |-> {}]

TrainRaises(future_ok) ==
    [train |-> "raises", score |-> 0, fit |-> Unfitted, future_ok |-> future_ok,
     predict_ok |-> TRUE, trend_model_ok |-> TRUE, trend_ok |-> TRUE, ties |-> {}]

\* the same outcome, except that the try block of _fallback_predictions raises
\* outside TrendModel.predict (a value that float() or PredictionPoint rejects, a
\* fault of the runtime)
TrendRaises(outcome) == [outcome EXCEPT !.trend_ok = FALSE]

\* the same outcome, except that the arithmetic of TrendModel.predict raises
TrendModelRaises(outcome) == [outcome EXCEPT !.trend_model_ok = FALSE]

\* the same outcome, except that LinearRegression.predict raises
PredictRaises(outcome) == [outcome EXCEPT !.predict_ok = FALSE]

\* the roundings of the points of one call: the predicted value and the
\* confidence of each point
PointSlots(time_horizon) == {"value", "confidence"} \X (1..time_horizon)

\* the same outcome, except that the doubles of `slots` lie above their ties
TiesUp(outcome, slots) == [outcome EXCEPT !.ties = slots]

\* fit succeeds with some score and coefficients; or fit raises (a non-numeric or
\* non-finite column), and then the column statistics of create_future_features
\* may raise as well
TrainOutcomes ==
    {TrainOk(sf[1], sf[2]) : sf \in ScoredFits} \cup {TrainRaises(b) : b \in BOOLEAN}

\* On a constant target column least squares is exact: zero coefficients, the
\* constant as intercept, and a score of 1.0
TrainOutcomesFor(frame) ==
    LET targets == Targets(frame)
    IN  IF \A i \in 1..Len(targets) : targets[i] = targets[1]
        THEN {TrainOk(100, Fit(100 * targets[1], 0))}
             \cup {TrainRaises(b) : b \in BOOLEAN}
        ELSE TrainOutcomes

\* train is not called (the frame is too short)
NotTrained ==
    [train |-> "skipped", score |-> 0, fit |-> Unfitted, future_ok |-> TRUE,
     predict_ok |-> TRUE, trend_model_ok |-> TRUE, trend_ok |-> TRUE, ties |-> {}]

\* what the libraries can do while _create_predictions runs on `frame`, with
\* every rounding tie coming out downwards
LibraryOutcomes(frame) ==
    IF frame = <<>> THEN {NotTrained}
    ELSE IF Len(frame) < MIN_DATA_POINTS
    THEN {NotTrained, TrendRaises(NotTrained), TrendModelRaises(NotTrained)}
    ELSE LET fitted == {o \in TrainOutcomesFor(frame) :
                            o.train = "ok" /\ o.score = 100}
         IN  TrainOutcomesFor(frame)
             \cup {TrendRaises(TrainRaises(FALSE)), TrendModelRaises(TrainRaises(FALSE))}
             \cup {PredictRaises(o) : o \in fitted}

\* the roundings of the points of one run of _create_predictions that stand on
\* a tie: those whose side changes the rounded point, `down` being the points
\* with every tie rounded downwards and `up` with every tie rounded upwards
TiedPoints(down, up) ==
    {<<"value", i>> : i \in {j \in 1..Len(down) :
                                up[j].predicted_value # down[j].predicted_value}}
    \cup {<<"confidence", i>> : i \in {j \in 1..Len(down) :
                                        up[j].confidence # down[j].confidence}}

\* the rounding of np.mean of the confidences of preds, if it stands on a tie
TiedAverage(preds) ==
    IF preds # <<>> /\ 2 * (SumSeq(Confidences(preds)) % Len(preds)) = Len(preds)
    THEN {<<"average", 0>>} ELSE {}

\* the stages of _create_predictions that log an error under `outcome`
PredictionErrors(frame, outcome) ==
    (IF Len(frame) >= MIN_DATA_POINTS /\ outcome.train = "raises"
     THEN {"train"} ELSE {})
    \cup (IF Len(frame) >= MIN_DATA_POINTS /\ ~outcome.future_ok
          THEN {"create_future_features"} ELSE {})
    \cup (IF Len(frame) >= MIN_DATA_POINTS /\ outcome.train = "ok"
             /\ outcome.future_ok /\ ~outcome.predict_ok
          THEN {"predict"} ELSE {})
    \cup (IF Len(frame) >= 2 /\ ~outcome.trend_model_ok
             /\ (Len(frame) < MIN_DATA_POINTS \/ ~outcome.future_ok)
          THEN {"trend_model"} ELSE {})
    \cup (IF Len(frame) > 0 /\ ~outcome.trend_ok
             /\ (Len(frame) < MIN_DATA_POINTS \/ ~outcome.future_ok)
          THEN {"fallback_predictions"} ELSE {})

TrainOutcomesOverlapped ==
    {TrainOk(100, Fit(5000, 10000)), TrainOk(70, Fit(0, 0)), TrainRaises(TRUE)}

\* a line of text: `marker` is its leading token with the space after it, and
\* mlen the number of characters of that token in the text
Line(text, marker, rest, len, colon) ==
    [text |-> text, marker |-> marker, rest |-> rest, len |-> len,
     mlen |-> IF marker = BULLET THEN 2 ELSE Len(marker),
     colon |-> colon]

LineH == Line("(U+2022) Rebalance stock across warehouses", BULLET,
              "Rebalance stock across warehouses", 33, FALSE)

LineI == Line("10. Reduce idle capac", "10. ", "Reduce idle capac", 17, FALSE)

LineHeader == Line("Key recommendations:", "", "Key recommendations:", 20, TRUE)

LineShort == Line("- Reorder now", "- ", "Reorder now", 11, FALSE)

LineA == Line("1. Increase safety stock for the next cycle", "1. ",
              "Increase safety stock for the next cycle", 40, FALSE)

LineB == Line("- Renegotiate supplier lead times", "- ",
              "Renegotiate supplier lead times", 31, FALSE)

LineC == Line("6. Review supplier terms", "6. ", "Review supplier terms", 21, FALSE)

LineD == Line("Reduce idle capacity.", "", "Reduce idle capacity.", 21, FALSE)

LineE == Line("Reduce idle capacity", "", "Reduce idle capacity", 20, FALSE)

LineF == Line("2. Shift budget toward the growing segment", "2. ",
              "Shift budget toward the growing segment", 39, FALSE)

LineG == Line("3. Review overtime before hiring", "3. ",
              "Review overtime before hiring", 29, FALSE)

Reply(status, content) == [status |-> status, content |-> content]

\* what the completion call can come back with: a timeout or connection error
\* (status 0), an error status, or 200 with the text of the first choice
AiReplies ==
    {Reply(0, <<>>), Reply(500, <<>>), Reply(200, <<>>),
     Reply(200, <<LineHeader, LineShort, LineE>>),
     Reply(200, <<LineHeader, LineA, LineShort, LineH, LineA, LineI, LineD, LineE,
                  LineF, LineG>>)}

AiRepliesOverlapped == {Reply(500, <<>>), Reply(200, <<LineHeader, LineA, LineShort>>)}

-----------------------------------------------------------------------------
(* The orchestrator: generate_predictions as the steps between its          *)
(* suspension points: the data fetch, the authentication call and the      *)
(* completion call of the insight service, and the closing of an HTTP      *)
(* client at the exit of its "async with" block.  Where the code logs or   *)
(* stores something before the client is closed (an error status, the      *)
(* token), the closing is a step of its own; where it does not (a reply of *)
(* status 200, a timeout, a connection error), call and closing are one.   *)

NoToken == ""

NoRequest == [prediction_type |-> "", time_horizon |-> 0]

NoData == RawData("", TRUE, <<>>)

NoMetadata == [model_used |-> "", data_points |-> 0, last_updated |-> 0,
               confidence_avg |-> 0]

NoResponse == [prediction_type |-> "", time_horizon |-> 0, predictions |-> <<>>,
               insights |-> <<>>, metadata |-> NoMetadata]

NoCalls == [fetch |-> 0, auth |-> 0, completion |-> 0]

\* no direct call has been made
NoCall == [op |-> "", args |-> <<>>, result |-> <<>>]

Slots == IF workload = "sequential" THEN {"r1"} ELSE Reqs

\* the service after start-up, with no request in flight
ServiceIdle ==
    /\ ml_model = NewModel
    /\ dgpt_token = NoToken
    /\ pc = [r \in Reqs |-> "idle"]
    /\ request = [r \in Reqs |-> NoRequest]
    /\ historical_data = [r \in Reqs |-> NoData]
    /\ df = [r \in Reqs |-> <<>>]
    /\ predictions = [r \in Reqs |-> <<>>]
    /\ metadata = [r \in Reqs |-> NoMetadata]
    /\ response = [r \in Reqs |-> NoResponse]
    /\ service_insights = [r \in Reqs |-> <<>>]
    /\ error_log = [r \in Reqs |-> {}]
    /\ http_calls = [r \in Reqs |-> NoCalls]

Init ==
    /\ workload \in {"sequential", "overlapped"}
    /\ dgpt_enabled \in BOOLEAN
    /\ ServiceIdle
    /\ u_model = NewModel
    /\ u_call = NoCall

\* the return statement of the try block of generate_predictions
Respond(r, insights) ==
    /\ pc' = [pc EXCEPT ![r] = "done"]
    /\ response' = [response EXCEPT ![r] =
                        [prediction_type |-> request[r].prediction_type,
                         time_horizon    |-> request[r].time_horizon,
                         predictions     |-> predictions[r],
                         insights        |-> insights,
                         metadata        |-> metadata[r]]]

\* the stage of prepare_features that logs an error on `data`
FeatureErrors(data, ptype) ==
    IF RecordList(data, ListKey(ptype)) # <<>> /\ ~data.wellformed
    THEN {"prepare_features"} ELSE {}

\* a caller invokes generate_predictions; it runs to the await of the fetch
Start(r) ==
    /\ r \in Slots
    /\ pc[r] = "idle"
    /\ \E ptype \in (IF workload = "sequential" THEN PredictionTypes
                     ELSE IF workload = "overlapped" THEN {"budget", "resource"}
                     ELSE {"budget"}),
          h \in (IF workload = "sequential" THEN Horizons ELSE {3}) :
            request' = [request EXCEPT ![r] =
                            [prediction_type |-> ptype, time_horizon |-> h]]
    /\ pc' = [pc EXCEPT ![r] = "fetching"]
    /\ http_calls' = [http_calls EXCEPT ![r].fetch = @ + 1]
    /\ UNCHANGED <<workload, dgpt_enabled, ml_model, dgpt_token, historical_data,
                   df, predictions, metadata, response, service_insights, error_log>>
    /\ UNCHANGED unitVars

\* Faulty variant: a failed fetch is issued once more
FetchRaisesRetry(r) ==
    /\ pc[r] \in {"fetching", "fetch_failed"}
    /\ http_calls[r].fetch < 2
    /\ http_calls' = [http_calls EXCEPT ![r].fetch = @ + 1]
    /\ pc' = [pc EXCEPT ![r] = "fetching"]
    /\ error_log' = [error_log EXCEPT ![r] = @ \cup {"fetch_historical_data"}]
    /\ UNCHANGED <<workload, dgpt_enabled, ml_model, dgpt_token, request,
                   historical_data, df, predictions, metadata, response,
                   service_insights>>
    /\ UNCHANGED unitVars

\* the ERP service answers with a status other than 200: fetch_historical_data
\* logs the error and raises inside the "async with" block, whose exit awaits
\* the closing of the client
FetchErrorStatus(r) ==
    /\ pc[r] = "fetching"
    /\ pc' = [pc EXCEPT ![r] = "fetch_failed"]
    /\ error_log' = [error_log EXCEPT ![r] = @ \cup {"fetch_historical_data"}]
    /\ UNCHANGED <<workload, dgpt_enabled, ml_model, dgpt_token, request,
                   historical_data, df, predictions, metadata, response,
                   service_insights, http_calls>>
    /\ UNCHANGED unitVars

\* fetch_historical_data raises into generate_predictions, whose except clause
\* returns the fallback response: after the client of a failed status is closed,
\* or on a timeout, a connection error or an unparsable body, which are logged
\* once the client is closed
FetchRaises(r) ==
    /\ pc[r] \in {"fetching", "fetch_failed"}
    /\ response' = [response EXCEPT ![r] =
                        GenerateFallbackPredictions(request[r].prediction_type,
                                                    request[r].time_horizon)]
    /\ pc' = [pc EXCEPT ![r] = "done"]
    /\ error_log' = [error_log EXCEPT ![r] = @ \cup {"fetch_historical_data"}]
    /\ UNCHANGED <<workload, dgpt_enabled, ml_model, dgpt_token, request,
                   historical_data, df, predictions, metadata, service_insights,
                   http_calls>>
    /\ UNCHANGED unitVars

\* fetch_historical_data returns: features, predictions and metadata are computed
\* and the insight stage runs up to its first network call, or to the end when
\* the insight service is disabled
FetchReturns(r) ==
    /\ pc[r] = "fetching"
    /\ pc' = [pc EXCEPT ![r] = IF ~dgpt_enabled THEN "done"
                               ELSE IF dgpt_token = NoToken THEN "authenticating"
                               ELSE "completing"]
    /\ \E data \in (IF workload = "sequential"
                    THEN FetchedData(request[r].prediction_type)
                    ELSE FetchedDataOverlapped(request[r].prediction_type)) :
         /\ historical_data' = [historical_data EXCEPT ![r] = data]
         /\ LET ptype == request[r].prediction_type
                h     == request[r].time_horizon
                frame == PrepareFeatures(data, ptype)
            IN  /\ df' = [df EXCEPT ![r] = frame]
                /\ \E library \in
                        (IF workload = "sequential" THEN LibraryOutcomes(frame)
                         ELSE IF Len(frame) < MIN_DATA_POINTS THEN {NotTrained}
                         ELSE TrainOutcomesOverlapped) :
                   \E point_ties \in SUBSET TiedPoints(
                         CreatePredictions(frame, ptype, h, ml_model,
                                           library).predictions,
                         CreatePredictions(frame, ptype, h, ml_model,
                                           TiesUp(library, PointSlots(h))).predictions) :
                     LET created == CreatePredictions(frame, ptype, h, ml_model,
                                                      TiesUp(library, point_ties))
                     IN
                     \E average_ties \in SUBSET TiedAverage(created.predictions) :
                       LET outcome == TiesUp(library, point_ties \cup average_ties)
                           meta    == CreateMetadata(frame, created.predictions,
                                                     created.model, outcome)
                       IN  /\ predictions' = [predictions EXCEPT ![r] = created.predictions]
                           /\ metadata' = [metadata EXCEPT ![r] = meta]
                           /\ ml_model' = created.model
                           /\ error_log' = [error_log EXCEPT ![r] =
                                  @ \cup FeatureErrors(data, ptype)
                                    \cup PredictionErrors(frame, outcome)]
                           /\ IF ~dgpt_enabled
                              THEN /\ \E sides \in SUBSET Undecided(created.predictions,
                                                                    ptype, frame) :
                                        response' = [response EXCEPT ![r] =
                                          [prediction_type |-> ptype,
                                           time_horizon    |-> h,
                                           predictions     |-> created.predictions,
                                           insights        |-> GenerateInsights(
                                               created.predictions, ptype, frame,
                                               <<>>, sides),
                                           metadata        |-> meta]]
                                   /\ http_calls' = http_calls
                              ELSE /\ response' = response
                                   /\ http_calls' =
                                          IF dgpt_token = NoToken
                                          THEN [http_calls EXCEPT ![r].auth = @ + 1]
                                          ELSE [http_calls EXCEPT ![r].completion = @ + 1]
    /\ UNCHANGED <<workload, dgpt_enabled, dgpt_token, request, service_insights>>
    /\ UNCHANGED unitVars

\* the authentication call returns 200 with a token: _authenticate stores it in
\* the client object, where every request reads it, and leaves the "async with"
\* block, whose exit awaits the closing of the client
AuthReturns(r) ==
    /\ pc[r] = "authenticating"
    /\ dgpt_token' = "token"
    /\ pc' = [pc EXCEPT ![r] = "authenticated"]
    /\ UNCHANGED <<workload, dgpt_enabled, ml_model, request, historical_data, df,
                   predictions, metadata, response, service_insights, error_log,
                   http_calls>>
    /\ UNCHANGED unitVars

\* the client of the authentication call is closed: _get_token returns and
\* generate_insights issues the completion call
CompletionCalled(r) ==
    /\ pc[r] = "authenticated"
    /\ pc' = [pc EXCEPT ![r] = "completing"]
    /\ http_calls' = [http_calls EXCEPT ![r].completion = @ + 1]
    /\ UNCHANGED <<workload, dgpt_enabled, ml_model, dgpt_token, request,
                   historical_data, df, predictions, metadata, response,
                   service_insights, error_log>>
    /\ UNCHANGED unitVars

\* the authentication call returns an error status, or 200 without a token:
\* _authenticate logs the error and raises inside the "async with" block
AuthErrorStatus(r) ==
    /\ pc[r] = "authenticating"
    /\ pc' = [pc EXCEPT ![r] = "auth_failed"]
    /\ error_log' = [error_log EXCEPT ![r] = @ \cup {"generate_insights"}]
    /\ UNCHANGED <<workload, dgpt_enabled, ml_model, dgpt_token, request,
                   historical_data, df, predictions, metadata, response,
                   service_insights, http_calls>>
    /\ UNCHANGED unitVars

\* Faulty variant: the exception of _authenticate escapes the insight stage and
\* reaches the except clause of generate_predictions
AuthRaisesToFallback(r) ==
    /\ pc[r] \in {"authenticating", "auth_failed"}
    /\ response' = [response EXCEPT ![r] =
                        GenerateFallbackPredictions(request[r].prediction_type,
                                                    request[r].time_horizon)]
    /\ pc' = [pc EXCEPT ![r] = "done"]
    /\ error_log' = [error_log EXCEPT ![r] = @ \cup {"generate_insights"}]
    /\ UNCHANGED <<workload, dgpt_enabled, ml_model, dgpt_token, request,
                   historical_data, df, predictions, metadata, service_insights,
                   http_calls>>
    /\ UNCHANGED unitVars

\* _authenticate raises into generate_insights, which returns [], and the
\* rule-based insights are used: after the client of a failed status is closed,
\* or on a timeout or a connection error, which are logged once the client is
\* closed
AuthRaises(r) ==
    /\ pc[r] \in {"authenticating", "auth_failed"}
    /\ \E sides \in SUBSET Undecided(predictions[r], request[r].prediction_type,
                                    df[r]) :
         Respond(r, GenerateInsights(predictions[r], request[r].prediction_type,
                                     df[r], <<>>, sides))
    /\ error_log' = [error_log EXCEPT ![r] = @ \cup {"generate_insights"}]
    /\ UNCHANGED <<workload, dgpt_enabled, ml_model, dgpt_token, request,
                   historical_data, df, predictions, metadata, service_insights,
                   http_calls>>
    /\ UNCHANGED unitVars

\* the completion call returns an error status: generate_insights logs the error
\* inside the "async with" block, whose exit awaits the closing of the client
CompletionErrorStatus(r) ==
    /\ pc[r] = "completing"
    /\ pc' = [pc EXCEPT ![r] = "completion_failed"]
    /\ error_log' = [error_log EXCEPT ![r] = @ \cup {"generate_insights"}]
    /\ UNCHANGED <<workload, dgpt_enabled, ml_model, dgpt_token, request,
                   historical_data, df, predictions, metadata, response,
                   service_insights, http_calls>>
    /\ UNCHANGED unitVars

\* generate_insights of the client returns and the response is built: on a reply
\* of status 200, on a timeout or a connection error (status 0, logged once the
\* client is closed), or after the client of a failed status is closed
CompletionReturns(r) ==
    /\ pc[r] \in {"completing", "completion_failed"}
    /\ LET undecided == Undecided(predictions[r], request[r].prediction_type, df[r])
       IN
       \E reply \in (IF workload = "sequential" THEN AiReplies
                     ELSE AiRepliesOverlapped) :
         /\ (pc[r] = "completing") <=> (reply.status \in {0, 200})
         \* the rule-based stages run only when the service's list is empty
         /\ \E sides \in (IF CompletionInsights(reply) # <<>> THEN {{}}
                          ELSE SUBSET undecided) :
              Respond(r, GenerateInsights(predictions[r], request[r].prediction_type,
                                          df[r], CompletionInsights(reply), sides))
         /\ service_insights' = [service_insights EXCEPT ![r] = CompletionInsights(reply)]
         /\ error_log' = [error_log EXCEPT ![r] =
                IF reply.status = 200 THEN @ ELSE @ \cup {"generate_insights"}]
    /\ UNCHANGED <<workload, dgpt_enabled, ml_model, dgpt_token, request,
                   historical_data, df, predictions, metadata, http_calls>>
    /\ UNCHANGED unitVars

\* the caller has the response; the coroutine's locals are gone
Deliver(r) ==
    /\ pc[r] = "done"
    /\ pc' = [pc EXCEPT ![r] = "idle"]
    /\ request' = [request EXCEPT ![r] = NoRequest]
    /\ historical_data' = [historical_data EXCEPT ![r] = NoData]
    /\ df' = [df EXCEPT ![r] = <<>>]
    /\ predictions' = [predictions EXCEPT ![r] = <<>>]
    /\ metadata' = [metadata EXCEPT ![r] = NoMetadata]
    /\ response' = [response EXCEPT ![r] = NoResponse]
    /\ service_insights' = [service_insights EXCEPT ![r] = <<>>]
    /\ error_log' = [error_log EXCEPT ![r] = {}]
    /\ http_calls' = [http_calls EXCEPT ![r] = NoCalls]
    /\ UNCHANGED <<workload, dgpt_enabled, ml_model, dgpt_token>>
    /\ UNCHANGED unitVars

Next ==
    \E r \in Reqs :
        \/ Start(r)
        \/ FetchErrorStatus(r)
        \/ FetchRaises(r)
        \/ FetchReturns(r)
        \/ AuthReturns(r)
        \/ CompletionCalled(r)
        \/ AuthErrorStatus(r)
        \/ AuthRaises(r)
        \/ CompletionErrorStatus(r)
        \/ CompletionReturns(r)
        \/ Deliver(r)

Spec == Init /\ [][Next]_vars

\* the closing of an HTTP client: the step of a request that waits for nothing
\* outside the process
ClientCloses(r) ==
    /\ pc[r] \in {"fetch_failed", "authenticated", "auth_failed", "completion_failed"}
    /\ \/ FetchRaises(r)
       \/ CompletionCalled(r)
       \/ AuthRaises(r)
       \/ CompletionReturns(r)

\* The event loop runs every coroutine that is ready.  A coroutine that waits
\* for the ERP service or for the insight service is ready when the peer lets
\* it: the timeout handed to httpx.AsyncClient (data_fetcher.py line 21,
\* dgpt_client.py lines 33 and 109) bounds each wait on the socket, not the call,
\* and no await is wrapped in a deadline, so nothing in the program makes a
\* pending call return.
EventLoopRuns == \A r \in Reqs : WF_vars(ClientCloses(r))

\* two budget requests in flight on the one engine, with or without the insight
\* service
FairInit ==
    /\ workload = "paired"
    /\ dgpt_enabled \in BOOLEAN
    /\ ServiceIdle
    /\ u_model = NewModel
    /\ u_call = NoCall

FairSpec == FairInit /\ [][Next]_vars /\ EventLoopRuns

-----------------------------------------------------------------------------
(* The components driven directly: the model layer, the confidence scorer   *)
(* and the trend analysis are called with arguments of the caller's choice, *)
(* outside any request, one call at a time.                                *)

MaxStep == 40

MaxRows == 3

\* row counts of the training sets handed to train
TrainRows == {0, 1, 2, MIN_DATA_POINTS}

\* fit scores, in hundredths: every twentieth, and the neighbours of the points
\* where the score factor and the product leave their floors
FitScores == {5 * k : k \in 0..20} \cup {1, 49, 51, 62, 63}

\* predicted values of the sequences handed to _analyze_trend
TrendValues == {0, 50, 85, 100, 110, 120}

ValuePoints(values) ==
    [i \in 1..Len(values) |->
        PredictionPoint(Today + i, values[i], BASE_CONFIDENCE)]

ValueSeqs ==
    UNION {[1..n -> TrendValues] : n \in 1..MaxRows}

UnitInit ==
    /\ workload = "sequential"
    /\ dgpt_enabled = FALSE
    /\ ServiceIdle
    /\ u_model = NewModel
    /\ u_call = NoCall

\* u_model.train(X, y) on a training set of `rows` rows
UnitTrain ==
    /\ u_call = NoCall
    /\ \E rows \in TrainRows, outcome \in TrainOutcomes :
         LET trained == Train(u_model, rows, outcome)
         IN  /\ u_model' = trained.model
             /\ u_call' = [op |-> "train", args |-> <<rows>>,
                           result |-> <<trained.score>>]
    /\ UNCHANGED serviceVars

\* u_model.predict(X) on `rows` feature rows
UnitPredict ==
    /\ u_call = NoCall
    /\ \E rows \in 0..MaxRows, ok \in BOOLEAN :
         u_call' = [op |-> "predict", args |-> <<rows, ok>>,
                    result |-> Predict(u_model, rows, ok)]
    /\ UNCHANGED <<u_model, serviceVars>>

\* _calculate_confidence at two steps s1 <= s2 of one forecast
UnitCalculateConfidence ==
    /\ u_call = NoCall
    /\ \E s1 \in 0..MaxStep, score \in FitScores :
         \E s2 \in s1..MaxStep :
           u_call' = [op |-> "calculate_confidence",
                      args |-> <<s1, s2, MaxStep + 1, score>>,
                      result |-> <<CalculateConfidence(s1, MaxStep + 1, score),
                                   CalculateConfidence(s2, MaxStep + 1, score)>>]
    /\ UNCHANGED <<u_model, serviceVars>>

\* _calculate_confidence at one step for two fit scores score1 <= score2
UnitCompareConfidence ==
    /\ u_call = NoCall
    /\ \E step \in 0..MaxStep, score1 \in FitScores :
         \E score2 \in {x \in FitScores : x >= score1} :
           u_call' = [op |-> "calculate_confidence_scores",
                      args |-> <<step, MaxStep + 1, score1, score2>>,
                      result |-> <<CalculateConfidence(step, MaxStep + 1, score1),
                                   CalculateConfidence(step, MaxStep + 1, score2)>>]
    /\ UNCHANGED <<u_model, serviceVars>>

\* _analyze_trend on a sequence of predicted values
UnitAnalyzeTrend ==
    /\ u_call = NoCall
    /\ \E ptype \in PredictionTypes, values \in ValueSeqs, sides \in SideChoices :
         u_call' = [op |-> "analyze_trend", args |-> <<ptype, values, sides>>,
                    result |-> AnalyzeTrend(ValuePoints(values), ptype, sides)]
    /\ UNCHANGED <<u_model, serviceVars>>

\* confidences of the points handed to the insight generator, in hundredths
StaticConfidences == {PLACEHOLDER_CONFIDENCE, FALLBACK_CONFIDENCE, 70, BASE_CONFIDENCE, 90}

\* predicted values of the lists handed to _generate_static_insights
StaticValues == {0, 50, 100, 120}

StaticValueSeqs ==
    UNION {[1..n -> StaticValues] : n \in 1..MaxRows}

\* target columns of the historical frames handed to the insight generator
StaticTargets == {<<>>, <<100, 100>>, <<20, 300>>}

ConfidencePoints(values, confidence) ==
    [i \in 1..Len(values) |-> PredictionPoint(Today + i, values[i], confidence)]

TargetFrame(targets) ==
    [i \in 1..Len(targets) |-> [date |-> Day0 + i - 1, target |-> targets[i]]]

\* _generate_static_insights on a non-empty list of predictions
UnitGenerateStaticInsights ==
    /\ u_call = NoCall
    /\ \E ptype \in PredictionTypes, values \in StaticValueSeqs,
          confidence \in StaticConfidences, targets \in StaticTargets,
          sides \in SideChoices :
         u_call' = [op |-> "generate_static_insights",
                    args |-> <<ptype, values, confidence, targets, sides>>,
                    result |-> GenerateStaticInsights(
                                   ConfidencePoints(values, confidence), ptype,
                                   TargetFrame(targets), sides)]
    /\ UNCHANGED <<u_model, serviceVars>>

\* lines of the texts handed to _parse_ai_insights
ParsedLines ==
    {LineHeader, LineShort, LineA, LineB, LineC, LineD, LineE, LineH, LineI}

ParsedTexts == UNION {[1..n -> ParsedLines] : n \in 1..MaxRows}

\* dgpt_client._parse_ai_insights on the text made of `lines`
UnitParseAiInsights ==
    /\ u_call = NoCall
    /\ \E lines \in ParsedTexts :
         u_call' = [op |-> "parse_ai_insights", args |-> <<lines>>,
                    result |-> ParseAiInsights(lines)]
    /\ UNCHANGED <<u_model, serviceVars>>

\* utilized and available hours of a resource record, in hundredths of an hour:
\* none, a fraction of an hour, whole hours, and a negative availability
UtilizedHours == {0, 25, 400, 800, 1200}

AvailableHours == {0 - 500, 0, 50, 100, 500}

\* the data handed to prepare_features: the histories of the pipeline, and for
\* resource requests one record of every combination of hours
FeatureData(ptype) ==
    FetchedData(ptype)
    \cup (IF ptype = "resource"
          THEN {RawData("utilization_data", TRUE,
                        <<[date |-> Day0, value |-> u, avail |-> a]>>) :
                    u \in UtilizedHours, a \in AvailableHours}
          ELSE {})

\* feature_engineer.prepare_features on the fetched data
UnitPrepareFeatures ==
    /\ u_call = NoCall
    /\ \E ptype \in PredictionTypes :
         \E data \in FeatureData(ptype) :
           u_call' = [op |-> "prepare_features", args |-> <<ptype, data>>,
                      result |-> PrepareFeatures(data, ptype)]
    /\ UNCHANGED <<u_model, serviceVars>>

\* fields a record of the ERP service carries besides the date and the numeric
\* fields of its domain
ExtraFields == {<<>>, <<"unit_price">>}

\* create_future_features for the frame of a request of type ptype
UnitCreateFutureFeatures ==
    /\ u_call = NoCall
    /\ \E ptype \in PredictionTypes, extra \in ExtraFields :
         LET feature_cols == GetFeatureColumns(FrameColumns(ptype, extra), ptype)
         IN  u_call' = [op |-> "create_future_features",
                        args |-> <<ptype, extra, feature_cols>>,
                        result |-> FutureColumns(feature_cols)]
    /\ UNCHANGED <<u_model, serviceVars>>

\* the caller has the result of the call
UnitReturn ==
    /\ u_call # NoCall
    /\ u_call' = NoCall
    /\ UNCHANGED <<u_model, serviceVars>>

UnitNext ==
    \/ UnitReturn
    \/ UnitTrain
    \/ UnitPredict
    \/ UnitCalculateConfidence
    \/ UnitCompareConfidence
    \/ UnitAnalyzeTrend
    \/ UnitGenerateStaticInsights
    \/ UnitParseAiInsights
    \/ UnitPrepareFeatures
    \/ UnitCreateFutureFeatures

UnitSpec == UnitInit /\ [][UnitNext]_vars

-----------------------------------------------------------------------------
(* Properties of the responses *)

Done(r) == pc[r] = "done"

\* the fetch of request r returned (it did not raise)
FetchSucceeded(r) == historical_data[r] # NoData

Dom(r) == request[r].prediction_type

Horizon(r) == request[r].time_horizon

\* the response generate_predictions builds in its except clause
IsFallbackResponse(resp, h) ==
    /\ Len(resp.predictions) = h
    /\ \A i \in 1..Len(resp.predictions) :
          /\ resp.predictions[i].predicted_value = 10000
          /\ resp.predictions[i].confidence = 50
    /\ resp.metadata.model_used = "fallback"
    /\ resp.metadata.data_points = 0
    /\ Len(resp.insights) = 2
    /\ resp.insights[1] = "Unable to generate detailed insights: {error_msg}"
    /\ resp.insights[2] = "Using basic trend analysis"

\* C1: every response carries exactly time_horizon predictions, whichever of the
\* primary model, the local fallback or the pipeline fallback produced it.
C1_PredictionCount ==
    \A r \in Reqs : Done(r) => Len(response[r].predictions) = Horizon(r)

\* a trend response from a one-row frame, with the longest horizon
C1_Witness ==
    \E r \in Reqs :
        /\ Done(r) /\ FetchSucceeded(r)
        /\ Len(df[r]) = 1
        /\ Horizon(r) = MaxHorizon
        /\ Len(response[r].predictions) = MaxHorizon

\* C2: in every response the prediction dates are consecutive days: each
\* prediction is dated exactly one day after the one before it.
C2_ConsecutiveDates ==
    \A r \in Reqs : Done(r) =>
        \A i \in 1..(Len(response[r].predictions) - 1) :
            response[r].predictions[i + 1].date = response[r].predictions[i].date + 1

\* a local-fallback response (dated from now) with several predictions
C2_Witness ==
    \E r \in Reqs :
        /\ Done(r) /\ FetchSucceeded(r)
        /\ Len(df[r]) \in 1..(MIN_DATA_POINTS - 1)
        /\ Len(response[r].predictions) >= 2
        /\ response[r].predictions[1].date = Today + 1
        /\ response[r].predictions[2].date = Today + 2

\* C3: in every response every predicted_value is >= 0, for every history
\* (negative target values, one-row frames) and on every model path.
C3_NonNegativeValues ==
    \A r \in Reqs : Done(r) =>
        \A i \in 1..Len(response[r].predictions) :
            response[r].predictions[i].predicted_value >= 0

\* C4: in every response every confidence lies in [0.5, 0.95], for the computed
\* confidence after rounding and for the fixed fallback confidences.
C4_ConfidenceBounds ==
    \A r \in Reqs : Done(r) =>
        \A i \in 1..Len(response[r].predictions) :
            /\ response[r].predictions[i].confidence >= 50
            /\ response[r].predictions[i].confidence <= 95

\* a primary-model response whose computed confidences differ along the horizon,
\* the raw product of the factors being below the lower clamp at some step
C4_Witness ==
    \E r \in Reqs :
        /\ Done(r) /\ FetchSucceeded(r)
        /\ Len(df[r]) >= MIN_DATA_POINTS
        /\ Len(response[r].predictions) >= 2
        /\ response[r].predictions[1].confidence = 80
        /\ response[r].predictions[2].confidence = 79

\* C5: every response has at most 6 insights, from the insight service, from the
\* rule-based pipeline or from the pipeline fallback.
C5_InsightCap ==
    \A r \in Reqs : Done(r) => Len(response[r].insights) <= 6

\* a rule-based insight list that the cap cut: the stages produced more than 6
C5_Witness ==
    \E r \in Reqs :
        /\ Done(r) /\ FetchSucceeded(r)
        /\ Len(response[r].insights) = 6
        /\ Len(AnalyzeTrend(predictions[r], Dom(r), {})
               \o AnalyzeConfidence(predictions[r], {})
               \o AnalyzeHistoricalContext(predictions[r], df[r], Dom(r), {})
               \o TypeSpecificInsights(predictions[r], Dom(r), {})) > 6

\* C6: when an exception escapes a stage of the pipeline (the request ends with
\* no predictions computed by the try block), generate_predictions still
\* returns, and what it returns is the fallback response: time_horizon
\* predictions of 100.0 with confidence 0.5, model_used "fallback",
\* data_points 0 and the two fixed insights.
C6_PipelineFallback ==
    \A r \in Reqs :
        (Done(r) /\ ~FetchSucceeded(r)) => IsFallbackResponse(response[r], Horizon(r))

\* a request whose fetch raised has returned, with the longest horizon
C6_Witness ==
    \E r \in Reqs :
        /\ Done(r) /\ ~FetchSucceeded(r)
        /\ predictions[r] = <<>>
        /\ Horizon(r) = MaxHorizon
        /\ response[r].metadata.model_used = "fallback"

\* C7: a response built from a frame of fewer than 5 rows never names the
\* primary trainable model ("linear_regression") as model_used.
C7_FallbackModelNamed ==
    \A r \in Reqs :
        (Done(r) /\ Len(df[r]) < MIN_DATA_POINTS) =>
            response[r].metadata.model_used # "linear_regression"

\* C8: when the fetch succeeds with an empty record list, the response is the
\* fallback-state output: flat 100.0 predictions with confidence 0.5,
\* data_points 0 and exactly 2 insights.
C8_EmptyHistoryFallback ==
    \A r \in Reqs :
        (Done(r) /\ FetchSucceeded(r)
         /\ RecordList(historical_data[r], ListKey(Dom(r))) = <<>>) =>
            /\ Len(response[r].predictions) = Horizon(r)
            /\ \A i \in 1..Len(response[r].predictions) :
                  /\ response[r].predictions[i].predicted_value = 10000
                  /\ response[r].predictions[i].confidence = 50
            /\ response[r].metadata.data_points = 0
            /\ Len(response[r].insights) = 2

\* C9: when the fetch succeeds and the insights are the rule-based ones (the
\* insight service is disabled, failed or returned nothing), the response has
\* between 1 and 6 insights.
C9_RuleBasedInsightsPresent ==
    \A r \in Reqs :
        (Done(r) /\ FetchSucceeded(r)
         /\ \E sides \in SUBSET Undecided(predictions[r], Dom(r), df[r]) :
               response[r].insights
                  = GenerateStaticInsights(predictions[r], Dom(r), df[r], sides)) =>
            /\ Len(response[r].insights) >= 1
            /\ Len(response[r].insights) <= 6

\* C10: no request leaves state behind for another request: whenever no request
\* is in flight, the shared model is as constructed (untrained, no coefficients)
\* and no authentication token is cached.
C10_NoSharedState ==
    (\A r \in Reqs : pc[r] = "idle") =>
        /\ ml_model = NewModel
        /\ dgpt_token = NoToken

-----------------------------------------------------------------------------
(* Properties of the directly driven components *)

\* C11: for a fixed fit score and horizon the confidence is non-increasing in the
\* step: for all steps 0 <= s1 <= s2, confidence(s2) <= confidence(s1).
C11_ConfidenceNonIncreasing ==
    u_call.op = "calculate_confidence" =>
        u_call.result[2] <= u_call.result[1]

\* two steps of one forecast, the later one past the point where the time factor
\* has reached its floor, with a strictly lower confidence
C11_Witness ==
    /\ u_call.op = "calculate_confidence"
    /\ u_call.args[1] < u_call.args[2]
    /\ BASE_CONFIDENCE - u_call.args[2] * CONFIDENCE_DECAY < MIN_CONFIDENCE
    /\ u_call.result[2] < u_call.result[1]

\* C12: trend analysis of a prediction sequence whose first predicted value is 0
\* raises no division error and yields no trend insight, for every domain and
\* every later value.
C12_NoTrendOnZeroFirst ==
    (u_call.op = "analyze_trend" /\ u_call.args[2][1] = 0) =>
        u_call.result = <<>>

\* the sequence 0, 50 analysed, with nothing appended
C12_Witness ==
    /\ u_call.op = "analyze_trend"
    /\ u_call.args[2] = <<0, 50>>
    /\ u_call.result = <<>>

\* C17: a train call with fewer than 2 rows, after any earlier train calls on the
\* same instance, returns score 0.0 and leaves the model untrained, so that the
\* next predict returns zeros.
C17_ShortTrainLeavesUntrained ==
    (u_call.op = "train" /\ u_call.args[1] < 2) =>
        /\ u_call.result = <<0>>
        /\ ~u_model.is_trained
        /\ \A rows \in 0..MaxRows, ok \in BOOLEAN :
              Predict(u_model, rows, ok) = Repeat(Rat(0, 1), rows)

-----------------------------------------------------------------------------
(* Properties of the stages and of the life of a request *)

\* the primary path was attempted for request r and training or the
\* future-feature construction failed, while the trend computation did not
PrimaryFailed(r) ==
    /\ Len(df[r]) >= MIN_DATA_POINTS
    /\ error_log[r] \cap {"train", "create_future_features"} # {}
    /\ error_log[r] \cap {"trend_model", "fallback_predictions"} = {}

\* C13: whenever the primary path is attempted (at least 5 rows) and training
\* raises or the future-feature vector is empty, the predicted values of the
\* response are those of the linear trend model on the raw target column.
C13_ModelFailureUsesTrend ==
    \A r \in Reqs :
        (Done(r) /\ FetchSucceeded(r) /\ PrimaryFailed(r)) =>
            \E slots \in SUBSET ({"value"} \X (1..Horizon(r))) :
                Values(response[r].predictions)
                    = Values(FallbackPredictions(df[r], Dom(r), Horizon(r),
                                                 TiesUp(NotTrained, slots)))

\* the insights that tell the caller the service ran degraded
DegradedNotes ==
    {"Unable to generate detailed insights: {error_msg}",
     "Using basic trend analysis",
     "Unable to generate detailed insights - basic trend analysis applied"}

\* C14: whenever the linear trend fallback itself raises, the response carries
\* time_horizon predictions of 100.0 with confidence 0.5 and its insights include
\* an explanatory insight noting degraded operation.
C14_PlaceholderExplained ==
    \A r \in Reqs :
        (Done(r) /\ "fallback_predictions" \in error_log[r]) =>
            /\ Len(response[r].predictions) = Horizon(r)
            /\ \A i \in 1..Len(response[r].predictions) :
                  /\ response[r].predictions[i].predicted_value = PLACEHOLDER_VALUE
                  /\ response[r].predictions[i].confidence = PLACEHOLDER_CONFIDENCE
            /\ \E i \in 1..Len(response[r].insights) :
                  response[r].insights[i] \in DegradedNotes

\* C15: in every response that is not the pipeline FALLBACK response and whose
\* frame is non-empty, the first prediction is dated the day after the last
\* historical date, on the primary path and on the trend fallback tier alike
\* (stated here for the requests in which no stage failed).
C15_FirstDateFollowsHistory ==
    \A r \in Reqs :
        (Done(r) /\ FetchSucceeded(r) /\ df[r] # <<>> /\ error_log[r] = {}
         /\ response[r].metadata.model_used # "fallback") =>
            response[r].predictions[1].date = LastDate(df[r]) + 1

\* C16: the insights of a request whose insight stage runs are entirely the
\* insight service's or entirely the rule-based ones: a non-empty list from the
\* service is the response's insights (cut to the cap); when the service fails,
\* is disabled or returns nothing, the insights are exactly the output of the
\* rule-based pipeline, and the request still ends normally.
C16_InsightsAllOrNothing ==
    \A r \in Reqs :
        (Done(r) /\ FetchSucceeded(r)) =>
            /\ response[r].metadata.model_used # "fallback"
            /\ IF service_insights[r] # <<>>
               THEN response[r].insights = Take(service_insights[r], MAX_INSIGHTS)
               ELSE \E sides \in SUBSET Undecided(predictions[r], Dom(r), df[r]) :
                       response[r].insights
                          = GenerateStaticInsights(predictions[r], Dom(r), df[r], sides)

\* two finished requests: one answered with the service's list, one whose call
\* of the service failed and which carries the rule-based list
C16_Witness ==
    \E r1, r2 \in Reqs :
        /\ Done(r1) /\ Done(r2)
        /\ service_insights[r1] # <<>>
        /\ response[r1].insights = service_insights[r1]
        /\ "generate_insights" \in error_log[r2]
        /\ response[r2].insights # <<>>
        /\ \E sides \in SUBSET Undecided(predictions[r2], Dom(r2), df[r2]) :
              response[r2].insights
                 = GenerateStaticInsights(predictions[r2], Dom(r2), df[r2], sides)

\* the stages of the orchestrator
STAGES == {"FETCHING", "FEATURIZING", "TRAINING", "PREDICTING", "SCORING_INSIGHTS"}

\* the failures of a stage, by the handler that logs them
StageFailures(stage) ==
    CASE stage = "FETCHING"         -> {"fetch_historical_data"}
      [] stage = "FEATURIZING"      -> {"prepare_features"}
      [] stage = "TRAINING"         -> {"train"}
      [] stage = "PREDICTING"       -> {"create_future_features", "predict",
                                        "trend_model", "fallback_predictions"}
      [] stage = "SCORING_INSIGHTS" -> {"generate_insights"}

\* C18, as stated: the FALLBACK response is reached from every stage: each of
\* FETCHING, FEATURIZING, TRAINING, PREDICTING and SCORING_INSIGHTS has a failure
\* that makes the request end in the FALLBACK response (model_used "fallback").
\* So at every moment each stage has a failure such that every finished request
\* in which it occurred has ended in the FALLBACK response.
C18_FallbackFromEveryStage ==
    \A stage \in STAGES :
        \E failure \in StageFailures(stage) :
            \A r \in Reqs :
                (Done(r) /\ failure \in error_log[r]) =>
                    response[r].metadata.model_used = "fallback"

\* C18, amended: the FALLBACK response is reached from FETCHING only. A request
\* ends in the FALLBACK response exactly when its fetch failed; a failure of
\* FEATURIZING, TRAINING, PREDICTING or SCORING_INSIGHTS is absorbed by that stage
\* and the request ends with a response that is not the FALLBACK response.
C18_FallbackFromFetchOnly ==
    \A r \in Reqs :
        Done(r) =>
            /\ (response[r].metadata.model_used = "fallback")
                  <=> ("fetch_historical_data" \in error_log[r])
            /\ \A stage \in STAGES \ {"FETCHING"} :
                  \A failure \in StageFailures(stage) :
                      failure \in error_log[r] =>
                          /\ response[r].metadata.model_used # "fallback"
                          /\ ~IsFallbackResponse(response[r], Horizon(r))

\* two finished requests: in one training and the insight service both failed
\* and the response is not the FALLBACK response; the fetch of the other failed
\* and its response is the FALLBACK response
C18_Witness ==
    \E r1, r2 \in Reqs :
        /\ Done(r1)
        /\ {"train", "generate_insights"} \subseteq error_log[r1]
        /\ response[r1].metadata.model_used # "fallback"
        /\ Len(response[r1].predictions) = Horizon(r1)
        /\ Done(r2)
        /\ "fetch_historical_data" \in error_log[r2]
        /\ IsFallbackResponse(response[r2], Horizon(r2))

FetchFailed(r) == "fetch_historical_data" \in error_log[r]

\* C20: a failed fetch always ends the request in the FALLBACK response; the
\* fetch is issued once per request, and after the failure no feature, model or
\* insight stage runs and the insight service is not called.  From the failure
\* on the request has no frame, no predictions and no metadata and has made no
\* call but the one fetch; it is closing its client or has ended, and its only
\* step is the one that ends it, with the FALLBACK response.
C20_FetchFailureEndsRequest ==
    /\ [](\A r \in Reqs :
            /\ http_calls[r].fetch <= 1
            /\ (Done(r) /\ ~FetchSucceeded(r)) => FetchFailed(r)
            /\ FetchFailed(r) =>
                  /\ pc[r] \in {"fetch_failed", "done"}
                  /\ Done(r) => IsFallbackResponse(response[r], Horizon(r))
                  /\ ~Done(r) => response[r] = NoResponse
                  /\ error_log[r] = {"fetch_historical_data"}
                  /\ http_calls[r] = [fetch |-> 1, auth |-> 0, completion |-> 0]
                  /\ ~FetchSucceeded(r)
                  /\ df[r] = <<>>
                  /\ predictions[r] = <<>>
                  /\ metadata[r] = NoMetadata
                  /\ service_insights[r] = <<>>)
    /\ [][\A r \in Reqs :
            /\ (FetchFailed(r)' /\ ~FetchFailed(r)) =>
                  /\ pc[r] = "fetching"
                  /\ ml_model' = ml_model
                  /\ dgpt_token' = dgpt_token
            /\ (FetchFailed(r) /\ ~Done(r) /\ pc'[r] # pc[r]) =>
                  /\ Done(r)'
                  /\ FetchFailed(r)'
                  /\ IsFallbackResponse(response'[r], Horizon(r))
                  /\ ml_model' = ml_model
                  /\ dgpt_token' = dgpt_token
            /\ (FetchFailed(r) /\ Done(r) /\ pc'[r] # pc[r]) =>
                  pc'[r] = "idle"]_vars

\* with the insight service enabled, the fetch of one request has failed and the
\* request has ended in the FALLBACK response, while another request, whose
\* fetch was answered with an error status, has logged the error and not ended
C20_Witness ==
    \E r1, r2 \in Reqs :
        /\ dgpt_enabled
        /\ Done(r1)
        /\ FetchFailed(r1)
        /\ IsFallbackResponse(response[r1], Horizon(r1))
        /\ pc[r2] = "fetch_failed"
        /\ FetchFailed(r2)
        /\ response[r2] = NoResponse

-----------------------------------------------------------------------------
(* Properties of the insight lists and of the feature frames *)

\* C21: the insights of every response are deduplicated: no string occurs twice
\* in them, whether they come from the rule-based stages or from the parsed
\* output of the insight service.
C21_InsightsDeduplicated ==
    LET NoDuplicates(s) == \A i, j \in 1..Len(s) : s[i] = s[j] => i = j
    IN  \A r \in Reqs : Done(r) => NoDuplicates(response[r].insights)

\* the outputs of the four rule-based stages, in the order of the pipeline, for
\* the arguments of a direct call of _generate_static_insights
StageOutputs(args) ==
    LET preds == ConfidencePoints(args[2], args[3])
        frame == TargetFrame(args[4])
    IN  <<AnalyzeTrend(preds, args[1], args[5]),
          AnalyzeConfidence(preds, args[5]),
          IF frame # <<>> THEN AnalyzeHistoricalContext(preds, frame, args[1], args[5])
          ELSE <<>>,
          TypeSpecificInsights(preds, args[1], args[5])>>

\* C22: every rule-based insight list is the first 6 elements of the
\* concatenation, in this order, of the outputs of the trend, confidence,
\* historical-context and domain-specific stages: every insight of an earlier
\* stage stays at its place, and only the tail is cut when there are more than 6.
C22_StagesAppendInOrder ==
    u_call.op = "generate_static_insights" =>
        LET out == StageOutputs(u_call.args)
            all == out[1] \o out[2] \o out[3] \o out[4]
        IN  /\ Len(u_call.result) = Min(MAX_INSIGHTS, Len(all))
            /\ \A i \in 1..Len(u_call.result) : u_call.result[i] = all[i]

\* a call in which the four stages together produce more than 6 insights, each
\* stage at least one, and the list is cut in the last stage's output
C22_Witness ==
    /\ u_call.op = "generate_static_insights"
    /\ LET out == StageOutputs(u_call.args)
       IN  /\ \A k \in 1..4 : out[k] # <<>>
           /\ Len(out[1]) + Len(out[2]) + Len(out[3]) + Len(out[4]) > MAX_INSIGHTS
           /\ Len(u_call.result) = MAX_INSIGHTS
           /\ u_call.result[1] = out[1][1]

\* the first sentences _analyze_trend has for an increase, a decrease and a
\* stable trend
IncreaseStatements ==
    {"Expected {pct}% increase in demand over forecast period",
     "Budget spending trending {pct}% higher",
     "Resource utilization expected to increase by {pct}%",
     "Sales revenue expected to grow by {pct}%"}

DecreaseStatements ==
    {"Expected {pct}% decrease in demand",
     "Budget spending trending {pct}% lower",
     "Resource utilization expected to decrease by {pct}%",
     "Sales revenue expected to decline by {pct}%"}

StableStatements ==
    {"Demand expected to remain stable",
     "Budget spending on track with historical patterns",
     "Resource utilization expected to remain stable",
     "Sales revenue expected to remain steady"}

\* C23: for at least 2 points and a non-zero first value, the trend stage
\* classifies pct = (last - first) / first * 100 as an increase iff pct > T, a
\* decrease iff pct < -T and stable otherwise, with T = 15 for budget and 10 for
\* the other domains, and in each of the three cases, for every domain, it
\* appends the trend statement together with a recommended-action phrase.
\* pct is the double the stage computes: where the exact percentage is T or -T,
\* it lies on the side the call's third argument names.
C23_TrendStatementAndAction ==
    (/\ u_call.op = "analyze_trend"
     /\ Len(u_call.args[2]) >= 2
     /\ u_call.args[2][1] # 0) =>
        LET first_value == u_call.args[2][1]
            last_value  == u_call.args[2][Len(u_call.args[2])]
            T    == IF u_call.args[1] = "budget" THEN 15 ELSE 10
            diff == 100 * (last_value - first_value)
            up   == \/ diff > T * first_value
                    \/ diff = T * first_value /\ "trend_above" \in u_call.args[3]
            down == \/ diff < (0 - T) * first_value
                    \/ diff = (0 - T) * first_value /\ "trend_below" \in u_call.args[3]
        IN  /\ Len(u_call.result) = 2
            /\ u_call.result[1] \in IncreaseStatements <=> up
            /\ u_call.result[1] \in DecreaseStatements <=> down
            /\ u_call.result[1] \in StableStatements <=> (~up /\ ~down)

\* C24: a line of the insight service's text is kept iff, after one leading
\* numbering or bullet marker is stripped, it has at least 20 characters and
\* does not end in a colon; a line of exactly 20 characters is kept.
C24_KeepsTwentyCharacters ==
    u_call.op = "parse_ai_insights" =>
        LET Substantial(line) == CleanedLine(line).len >= 20 /\ ~line.colon
            kept == SelectSeq(u_call.args[1], Substantial)
        IN  u_call.result =
                Take([i \in 1..Len(kept) |-> CleanedLine(kept[i]).text],
                     MAX_AI_INSIGHTS)

\* C25: for every resource record the frame's utilization_rate is
\* utilized_hours / max(available_hours, 1) clamped to [0, 1], whatever the
\* available hours: 0, strictly between 0 and 1, or negative.
C25_UtilizationOverAtLeastOneHour ==
    (u_call.op = "prepare_features" /\ u_call.args[1] = "resource"
     /\ u_call.args[2].wellformed /\ u_call.args[2].key = "utilization_data") =>
        LET RateOverAtLeastOneHour(utilized, avail) ==
                Max(0, Min(100, (100 * utilized) \div Max(avail, 100)))
            records == u_call.args[2].records
            frame   == u_call.result
        IN  /\ Len(frame) = Len(records)
            /\ \A i \in 1..Len(records) :
                  \E j \in 1..Len(frame) :
                     /\ frame[j].date = records[i].date
                     /\ frame[j].target =
                           RateOverAtLeastOneHour(records[i].value, records[i].avail)

\* C26: for every domain a future feature row has the width and the column
\* order of the training matrix X = df[feature_cols]: position i of the row holds
\* the value of the column at position i of feature_cols.
C26_FutureRowsFollowTrainingColumns ==
    u_call.op = "create_future_features" => u_call.result = u_call.args[3]

-----------------------------------------------------------------------------
(* Properties of the shared model under overlapping requests *)

\* every outcome of the libraries the pipeline is run under
PipelineOutcomes(frame) ==
    LibraryOutcomes(frame) \cup TrainOutcomesOverlapped \cup {NotTrained}

\* the predictions a request obtains when it runs alone on a newly constructed
\* model, under one outcome of the libraries
OwnPredictions(frame, ptype, time_horizon, outcome) ==
    CreatePredictions(frame, ptype, time_horizon, NewModel, outcome).predictions

\* request r holds predictions of the primary model: train, the future features
\* and predict all succeeded on a frame of at least min_data_points rows
HoldsPrimary(r) ==
    /\ FetchSucceeded(r)
    /\ Len(df[r]) >= MIN_DATA_POINTS
    /\ error_log[r] \cap {"train", "create_future_features", "predict"} = {}

\* preds are the predictions a request obtains alone under `outcome`, each
\* rounding that stands on a tie having come out on either side
OwnUpToTies(preds, frame, ptype, time_horizon, outcome) ==
    LET down == OwnPredictions(frame, ptype, time_horizon, TiesUp(outcome, {}))
    IN  \/ preds = down
        \/ LET up == OwnPredictions(frame, ptype, time_horizon,
                                    TiesUp(outcome, PointSlots(time_horizon)))
           IN  /\ Len(preds) = Len(down)
               /\ \A i \in 1..Len(down) :
                     /\ preds[i].date = down[i].date
                     /\ preds[i].predicted_value
                           \in {down[i].predicted_value, up[i].predicted_value}
                     /\ preds[i].confidence \in {down[i].confidence, up[i].confidence}

\* C27: under any interleaving of the requests, the predict call of a request
\* uses the model state written by the train call of that same request: in the
\* step in which the fetch of a request returns, its predictions are those it
\* obtains alone on a newly constructed model, whatever other requests have
\* trained before, and with at least 5 rows the shared model is then the one its
\* own train wrote.
C27_PredictUsesOwnTraining ==
    [][\A r \in Reqs :
          (pc[r] = "fetching" /\ historical_data'[r] # NoData) =>
              /\ \E outcome \in PipelineOutcomes(df'[r]) :
                    OwnUpToTies(predictions'[r], df'[r], Dom(r), Horizon(r), outcome)
              /\ Len(df'[r]) >= MIN_DATA_POINTS =>
                    \E outcome \in PipelineOutcomes(df'[r]) :
                        /\ ml_model' = Train(ml_model, Len(df'[r]), outcome).model
                        /\ outcome.train # "skipped"
                        /\ (outcome.train = "ok" /\ outcome.future_ok) =>
                              \A i \in 1..Horizon(r) :
                                  predictions'[r][i].predicted_value \in
                                      {Round2(Predict(ml_model', Horizon(r),
                                                      outcome.predict_ok)[i], up) :
                                          up \in BOOLEAN}]_vars

\* two requests overlap: both are suspended at the insight service, each holding
\* predictions of the primary model, and the two were made with different
\* coefficients
C27_Witness ==
    \E r1, r2 \in Reqs :
        /\ r1 # r2
        /\ pc[r1] \in {"authenticating", "completing"}
        /\ pc[r2] \in {"authenticating", "completing"}
        /\ HoldsPrimary(r1)
        /\ HoldsPrimary(r2)
        /\ Values(predictions[r1]) # Values(predictions[r2])

-----------------------------------------------------------------------------
(* Properties of the confidence values *)

HIGH_RELIABILITY == "High confidence predictions based on strong historical patterns"

Elements(s) == {s[i] : i \in 1..Len(s)}

\* _calculate_confidence returns at most base_confidence at every step 0..MaxStep
\* and for every fit score of FitScores
ConfidenceNeverAboveBase ==
    \A step \in 0..MaxStep, model_score \in FitScores :
        CalculateConfidence(step, MaxStep + 1, model_score) <= BASE_CONFIDENCE * 100

\* C28: for every step >= 0 and every fit score in [0,1] the computed confidence
\* is at most 0.8 (the upper clamp 0.95 never binds), so in every response every
\* confidence and the average confidence are at most 0.8, and the confidence
\* stage of the rule-based insights never emits the high-reliability insight,
\* which requires an average above 0.85.
C28_ConfidenceAtMostBase ==
    /\ ConfidenceNeverAboveBase
    /\ \A r \in Reqs :
          /\ \A i \in 1..Len(predictions[r]) :
                predictions[r][i].confidence <= BASE_CONFIDENCE
          /\ predictions[r] # <<>> =>
                \A sides \in SUBSET {"confidence_high", "confidence_moderate"} :
                    HIGH_RELIABILITY
                        \notin Elements(AnalyzeConfidence(predictions[r], sides))
          /\ Done(r) =>
                /\ response[r].metadata.confidence_avg <= BASE_CONFIDENCE
                /\ \A i \in 1..Len(response[r].predictions) :
                      response[r].predictions[i].confidence <= BASE_CONFIDENCE
                /\ HIGH_RELIABILITY \notin Elements(response[r].insights)

\* a finished request whose model fitted perfectly, with two predictions: the
\* confidences are 0.8 and 0.79, their average 0.795 is rounded up to 0.8, and
\* the response carries the rule-based insights
C28_Witness ==
    \E r \in Reqs :
        /\ Done(r)
        /\ HoldsPrimary(r)
        /\ Confidences(predictions[r]) = <<BASE_CONFIDENCE, BASE_CONFIDENCE - 1>>
        /\ response[r].metadata.confidence_avg = BASE_CONFIDENCE
        /\ \E sides \in SUBSET Undecided(predictions[r], Dom(r), df[r]) :
              response[r].insights =
                 GenerateStaticInsights(predictions[r], Dom(r), df[r], sides)

-----------------------------------------------------------------------------
(* Properties of the inventory frame *)

\* request r is an inventory request whose fetch returned a well-formed history
InventoryHistory(r) ==
    /\ FetchSucceeded(r)
    /\ Dom(r) = "inventory"
    /\ historical_data[r].key = "history"
    /\ historical_data[r].wellformed

\* the primary model was attempted for request r: _create_predictions calls
\* train exactly when the frame it is handed has at least min_data_points rows
PrimaryAttempted(r) ==
    /\ FetchSucceeded(r)
    /\ Len(df[r]) >= MIN_DATA_POINTS

\* C29: an inventory history of n daily records without missing values gives a
\* frame of max(0, n - 7) rows; so a history of 1..7 records gives an empty frame
\* and flat predictions of 100.0 (the trend model is not applied to the
\* quantities), and the primary model is attempted only when n >= 12: a fetch
\* that returns fewer records leaves the shared model as it was.
C29_InventoryNeedsTwelveRecords ==
    /\ [](\A r \in Reqs :
            InventoryHistory(r) =>
                LET n == Len(historical_data[r].records)
                IN  /\ Len(df[r]) = Max(0, n - LAG_WINDOW)
                    /\ (n >= 1 /\ n <= LAG_WINDOW) =>
                          /\ df[r] = <<>>
                          /\ Len(predictions[r]) = Horizon(r)
                          /\ \A i \in 1..Len(predictions[r]) :
                                predictions[r][i].predicted_value = PLACEHOLDER_VALUE
                    /\ PrimaryAttempted(r) => n >= LAG_WINDOW + MIN_DATA_POINTS)
    /\ [][\A r \in Reqs :
            (pc[r] = "fetching" /\ InventoryHistory(r)'
             /\ Len(historical_data'[r].records) < LAG_WINDOW + MIN_DATA_POINTS) =>
                ml_model' = ml_model]_vars

\* an inventory request with seven rising daily quantities has finished: the
\* frame is empty and the response is flat
C29_Witness ==
    \E r \in Reqs :
        /\ Done(r)
        /\ InventoryHistory(r)
        /\ Len(historical_data[r].records) = LAG_WINDOW
        /\ historical_data[r].records[1].value < historical_data[r].records[2].value
        /\ df[r] = <<>>
        /\ Horizon(r) = MaxHorizon
        /\ Values(response[r].predictions) = Repeat(PLACEHOLDER_VALUE, MaxHorizon)

\* C30: at every fixed step the confidence is non-decreasing in the fit score
\* over [0,1]: for all scores score1 <= score2, confidence(score1) <=
\* confidence(score2), the score 0 (score factor 0.6) and the small positive
\* scores (score factor 0.5) included.
C30_ConfidenceNonDecreasingInScore ==
    u_call.op = "calculate_confidence_scores" =>
        u_call.result[1] <= u_call.result[2]

\* the first step compared for the fit score 0 and a positive fit score below
\* 0.5: the product is lower for the positive score, the confidence is not
C30_Witness ==
    /\ u_call.op = "calculate_confidence_scores"
    /\ u_call.args[1] = 0
    /\ u_call.args[3] = 0
    /\ u_call.args[4] > 0
    /\ u_call.args[4] < 50
    /\ ZERO_SCORE_FACTOR * BASE_CONFIDENCE > 50 * BASE_CONFIDENCE
    /\ u_call.result[1] = u_call.result[2]

====
